---- MODULE Spec2Model ----
(***************************************************************************)
(* Report scoring and narrative generation of the BioAge platform:         *)
(*   app/services/report/pdf.py      _to_float, _clamp, _t, _safe_lines,   *)
(*                                   _compute_section_scores, build_pdf,   *)
(*                                   _register_unicode_fonts               *)
(*   app/services/openai_service.py  _assessment_context, _mock_report,    *)
(*                                   generate_report_json                  *)
(*   app/core/questions.py           QUESTIONS, validate_answer            *)
(*   app/main.py                     assessment_step_post,                 *)
(*                                   start_report_generation               *)
(*   app/services/subscriptions/service.py  can_generate_report            *)
(*   app/services/email/service.py   send_email                            *)
(*   app/services/report/tasks.py    generate_and_send_report              *)
(*                                                                         *)
(* Text is a sequence of symbols.  A symbol is one character, or a run of  *)
(* characters that the code only ever copies (a literal of the source).    *)
(* A JSON value is a record with a type tag t and one payload field per    *)
(* type: s (string symbols), n (number), l (list items), o (object         *)
(* members); the payload fields a type does not use are empty.             *)
(***************************************************************************)
EXTENDS Integers, Sequences, FiniteSets, TLC

VARIABLES
    answers,      \* the AnswerSet handed to the operation (a dict)
    lang,         \* the language code handed to the operation
    pc,           \* position of the running operation
    scores,       \* result of _compute_section_scores, <<>> before it ran
    api_key,      \* settings.openai_api_key is set
    clock,        \* datetime.now(), in seconds
    ctx,          \* ctx of generate_report_json
    calls,        \* the calls made to the text-generation provider, in order
    raised,       \* the steps of generate_report_json that raised
    text,         \* the reply text handed to json.loads
    data,         \* data of generate_report_json
    ret,          \* the document generate_report_json returned, Null before
    path,         \* the return statement generate_report_json left through
    assessment,   \* the Assessment row of the user
    reports,      \* the Report rows of the user, in creation order
    user,         \* the User row: current plan and language
    queue,        \* the report ids enqueued for the worker, in order
    request,      \* the last request of the user: handler, step, form value
    response,     \* the page the last request of the user was answered with
    story,        \* the flowables build_pdf handed to doc.build, in order
    files,        \* the font files of the host: where each file name is found
    roots,        \* the font directories of the host that exist, that can be listed
    registered,   \* pdfmetrics: the registered font names and the file of each
    fonts,        \* the pair _register_unicode_fonts returned, <<>> before
    smtp,         \* settings: smtp_host and email_from are set, email_send_retries
    attempts,     \* the SMTP send attempts of send_email, in order
    last_err,     \* last_err of send_email, NoError for None
    requests,     \* the running start_report_generation requests, each with its session
    worker,       \* the queue worker: its position in generate_and_send_report, its job
    disk          \* the PDF files written to REPORT_DIR

vars == <<answers, lang, pc, scores, api_key, clock, ctx, calls, raised, text,
          data, ret, path, assessment, reports, user, queue, request, response,
          story,
          files, roots, registered, fonts, smtp, attempts, last_err,
          requests, worker, disk>>

genVars == <<api_key, clock, ctx, calls, raised, text, data, ret, path>>

flowVars == <<assessment, reports, user, queue, request, response>>

\* a request: authorized when it comes with a logged-in user and a valid token
Request(handler, authorized, step, value) ==
    [handler |-> handler, authorized |-> authorized, step |-> step, value |-> value]

NoRequest == Request("none", FALSE, 0, <<>>)

\* a response: the page, and for the form of a step the step and the error shown
Page(name) == [page |-> name, step |-> 0, error |-> "none"]

StepForm(step, error) == [page |-> "step", step |-> step, error |-> error]

pdfVars == <<story>>

fontVars == <<files, roots, registered, fonts>>

mailVars == <<smtp, attempts, last_err>>

jobVars == <<requests, worker, disk>>

\* the state of the host process beside the running operation
hostVars == <<fontVars, mailVars, jobVars>>

NoFonts ==
    /\ files = <<>>
    /\ roots = [exists |-> {}, listed |-> {}]
    /\ registered = <<>>
    /\ fonts = <<>>

\* an exception of an SMTP attempt: the attempt and the call that raised it
Error(attempt, at) == [attempt |-> attempt, at |-> at]

NoError == Error(0, "none")

NoMail ==
    /\ smtp = [smtp_host |-> FALSE, email_from |-> FALSE, login |-> FALSE,
               email_send_retries |-> 0]
    /\ attempts = <<>>
    /\ last_err = NoError

NoJobs ==
    /\ requests = <<>>
    /\ worker = [pc |-> "idle", job |-> 0, failed |-> {}]
    /\ disk = {}

HostIdle == NoFonts /\ NoMail /\ NoJobs

(***************************************************************************)
(* Bounds of the checked input space.                                      *)
(***************************************************************************)
MaxWhole == 10       \* largest whole part written in generated number strings
MaxClock == 1        \* seconds that may pass during one invocation
MaxDeviations == 1   \* fields of a provider reply that deviate from its base shape
MaxReports == 2      \* Report rows a user is followed through

(***************************************************************************)
(* Text.                                                                   *)
(***************************************************************************)
Whitespace == {" ", "\t", "\n"}

DigitChars == <<"0", "1", "2", "3", "4", "5", "6", "7", "8", "9">>

IsDigit(c) == \E d \in 1..10 : DigitChars[d] = c

DigitVal(c) == (CHOOSE d \in 1..10 : DigitChars[d] = c) - 1

UpperChars == <<"A", "B", "C", "D", "E", "F", "G", "H", "I", "J", "K", "L", "M",
                "N", "O", "P", "Q", "R", "S", "T", "U", "V", "W", "X", "Y", "Z">>

LowerChars == <<"a", "b", "c", "d", "e", "f", "g", "h", "i", "j", "k", "l", "m",
                "n", "o", "p", "q", "r", "s", "t", "u", "v", "w", "x", "y", "z">>

\* str.lower()
lower(s) ==
    [i \in 1..Len(s) |->
        IF \E k \in 1..26 : UpperChars[k] = s[i]
        THEN LowerChars[CHOOSE k \in 1..26 : UpperChars[k] = s[i]]
        ELSE s[i]]

\* str.replace(old, new) for one-character old and new
replace(s, old, new) == [i \in 1..Len(s) |-> IF s[i] = old THEN new ELSE s[i]]

\* the part of s between the first and the last position in kept
Between(s, kept) ==
    IF kept = {} THEN <<>>
    ELSE SubSeq(s, CHOOSE i \in kept : \A j \in kept : i <= j,
                   CHOOSE i \in kept : \A j \in kept : j <= i)

\* str.strip()
strip(s) == Between(s, {i \in 1..Len(s) : s[i] \notin Whitespace})

\* sub in s
Contains(s, sub) ==
    \E i \in 1..(Len(s) - Len(sub) + 1) : SubSeq(s, i, i + Len(sub) - 1) = sub

(***************************************************************************)
(* JSON values.                                                            *)
(***************************************************************************)
Null == [t |-> "null", s |-> <<>>, n |-> 0, l |-> <<>>, o |-> <<>>]

Str(sym) == [t |-> "str", s |-> sym, n |-> 0, l |-> <<>>, o |-> <<>>]

\* an integer literal
Num(k) == [t |-> "num", s |-> <<"int">>, n |-> k, l |-> <<>>, o |-> <<>>]

List(items) == [t |-> "list", s |-> <<>>, n |-> 0, l |-> items, o |-> <<>>]

Obj(members) == [t |-> "obj", s |-> <<>>, n |-> 0, l |-> <<>>, o |-> members]

EmptyDict == <<>>

\* dict.get(key) and dict.get(key, default)
Get(d, key) == IF key \in DOMAIN d THEN d[key] ELSE Null

GetD(d, key, default) == IF key \in DOMAIN d THEN d[key] ELSE default

\* d[key] = value on a dict
Put(d, key, value) ==
    [k \in (DOMAIN d) \cup {key} |-> IF k = key THEN value ELSE d[k]]

\* d[key] = value whether or not the key is present
set_over(d, key, value) == Put(d, key, value)

\* dict.setdefault(key, value)
setdefault(d, key, value) == IF key \in DOMAIN d THEN d ELSE Put(d, key, value)

(***************************************************************************)
(* Numbers.  A float is kept as an integer count of 1/Scale units, or is   *)
(* one of nan, inf, -inf, or is "tiny": nonzero and so close to zero that  *)
(* its square underflows to 0.0; NoFloat is Python's None.                 *)
(***************************************************************************)
RECURSIVE Pow10(_)
Pow10(k) == IF k = 0 THEN 1 ELSE 10 * Pow10(k - 1)

\* floats are kept in tenths
Scale == Pow10(1)

NoFloat == [k |-> "none", n |-> 0]

\* float() raised ValueError
ValueError == [k |-> "error", n |-> 0]

Fin(v) == [k |-> "fin", n |-> v]

NaN == [k |-> "nan", n |-> 0]

Inf(sign) == [k |-> "inf", n |-> sign]

Tiny(sign) == [k |-> "tiny", n |-> sign]

Whole(i) == Fin(i * Scale)

Rank(a) == IF a.k = "inf" THEN a.n ELSE 0

\* the place of a finite float among the finite floats: a tiny one lies
\* between zero and the nearest count of 1/Scale units
Fine(a) == IF a.k = "tiny" THEN a.n ELSE 2 * a.n

\* a <= b and a < b on floats: every comparison with nan is false
FLe(a, b) ==
    /\ a.k # "nan" /\ b.k # "nan"
    /\ \/ Rank(a) < Rank(b)
       \/ Rank(a) = Rank(b) /\ (a.k = "inf" \/ Fine(a) <= Fine(b))

FLt(a, b) ==
    /\ a.k # "nan" /\ b.k # "nan"
    /\ \/ Rank(a) < Rank(b)
       \/ Rank(a) = Rank(b) /\ a.k # "inf" /\ Fine(a) < Fine(b)

RECURSIVE DigitsValue(_)
DigitsValue(ds) ==
    IF ds = <<>> THEN 0
    ELSE 10 * DigitsValue(SubSeq(ds, 1, Len(ds) - 1)) + DigitVal(ds[Len(ds)])

\* The fractional digits as a count of 1/Scale units (tenths: the first digit).
FracValue(ds) == IF ds = <<>> THEN 0 ELSE DigitVal(ds[1]) * (Scale \div 10)

\* the digits before and after position point, as a count of 1/Scale units
DecimalValue(body, point) ==
    DigitsValue(SubSeq(body, 1, point - 1)) * Scale
    + FracValue(SubSeq(body, point + 1, Len(body)))

ParseDecimal(body, neg, points) ==
    IF /\ Cardinality(points) <= 1
       /\ \A i \in 1..Len(body) : IsDigit(body[i]) \/ body[i] = "."
       /\ \E i \in 1..Len(body) : IsDigit(body[i])
    THEN Fin((IF neg THEN -1 ELSE 1)
             * DecimalValue(body, IF points = {} THEN Len(body) + 1
                                  ELSE CHOOSE i \in points : TRUE))
    ELSE ValueError

\* the exponent digits ex after "e": an optional sign, then digits
ExponentValid(ex) ==
    /\ ex # <<>>
    /\ LET ds == IF ex[1] \in {"+", "-"} THEN Tail(ex) ELSE ex
       IN  ds # <<>> /\ \A i \in 1..Len(ds) : IsDigit(ds[i])

ExponentValue(ex) ==
    IF ex[1] = "-" THEN -DigitsValue(Tail(ex))
    ELSE IF ex[1] = "+" THEN DigitsValue(Tail(ex))
    ELSE DigitsValue(ex)

\* mantissa m times ten to the power e, as the nearest double: infinite
\* from 1e310 on, 0.0 below the smallest subnormal; a nonzero value of at
\* most about 1e-163 is tiny
Scaled(m, e, sign) ==
    IF m.n = 0 THEN Fin(0)
    ELSE IF e >= 310 THEN Inf(sign)
    ELSE IF e >= 0 THEN Fin(m.n * Pow10(e))
    ELSE IF e > -170 THEN Fin(sign * (((sign * m.n) \div Pow10(-e))))
    ELSE IF e >= -322 THEN Tiny(sign)
    ELSE Fin(0)

\* mantissa, "e" or "E" at position at, exponent
ParseExponent(body, neg, at) ==
    LET mant == SubSeq(body, 1, at - 1)
        ex   == SubSeq(body, at + 1, Len(body))
        m    == ParseDecimal(mant, neg, {i \in 1..Len(mant) : mant[i] = "."})
    IN  IF m = ValueError \/ ~ExponentValid(ex) THEN ValueError
        ELSE Scaled(m, ExponentValue(ex), IF neg THEN -1 ELSE 1)

ParseBody(body, neg, low) ==
    IF low = <<"n", "a", "n">> THEN NaN
    ELSE IF low \in {<<"i", "n", "f">>, <<"i", "n", "f", "i", "n", "i", "t", "y">>}
    THEN Inf(IF neg THEN -1 ELSE 1)
    ELSE IF Cardinality({i \in 1..Len(low) : low[i] = "e"}) = 1
    THEN ParseExponent(body, neg, CHOOSE i \in 1..Len(low) : low[i] = "e")
    ELSE ParseDecimal(body, neg, {i \in 1..Len(body) : body[i] = "."})

ParseSigned(t0, signed) ==
    ParseBody(IF signed THEN Tail(t0) ELSE t0,
              signed /\ t0[1] = "-",
              lower(IF signed THEN Tail(t0) ELSE t0))

\* float(txt): surrounding whitespace, an optional sign, then digits with at
\* most one point and at least one digit, or nan / inf / infinity in any
\* case, or such digits followed by e and a signed exponent; anything else
\* is a ValueError.  Values are cut to 1/Scale units;
\* digit-group underscores, which float() also reads, appear in no input.
PyFloat(txt) == ParseSigned(strip(txt), strip(txt) # <<>> /\ strip(txt)[1] \in {"+", "-"})

RECURSIVE NatDigits(_)
NatDigits(k) ==
    IF k < 10 THEN <<DigitChars[k + 1]>>
    ELSE NatDigits(k \div 10) \o <<DigitChars[(k % 10) + 1]>>

\* str(value) of a JSON value an answer can hold
PyStr(v) ==
    CASE v.t = "str"  -> v.s
      [] v.t = "num"  -> NatDigits(v.n)
      [] v.t = "null" -> <<"N", "o", "n", "e">>
      [] OTHER        -> <<"{", "}">>

\* _to_float of pdf.py and of openai_service.py (the two are the same code)
\* except Exception: return None
NoneIfRaised(f) == IF f = ValueError THEN NoFloat ELSE f

\* a _to_float that reads the text as it is
to_float_as_written(value) ==
    IF value.t = "null" THEN NoFloat
    ELSE NoneIfRaised(PyFloat(strip(PyStr(value))))

_to_float(value) ==
    IF value.t = "null" THEN NoFloat
    ELSE NoneIfRaised(PyFloat(strip(replace(PyStr(value), ",", "."))))

\* a clamp that keeps scores per mille
clamp_permille(v, lo, hi) ==
    LET m == IF hi * 10 < v * 10 THEN hi * 10 ELSE v * 10
    IN  IF lo > m THEN lo ELSE m

_clamp(v, lo, hi) ==
    LET m == IF hi < v THEN hi ELSE v
    IN  IF lo > m THEN lo ELSE m

(***************************************************************************)
(* Section scores.                                                         *)
(***************************************************************************)
\* loc of _compute_section_scores
loc(lg, en, uk, ru) == IF lg = "uk" THEN uk ELSE IF lg = "ru" THEN ru ELSE en

\* a sleep rule whose target range starts above 7 hours
SleepRuleOpenAtSeven(sleep_h, lg) ==
    IF sleep_h.k = "none" THEN <<60, "No sleep data.">>
    ELSE IF FLt(Whole(7), sleep_h) /\ FLe(sleep_h, Whole(9)) THEN <<90, "target">>
    ELSE IF \/ FLe(Whole(6), sleep_h) /\ FLe(sleep_h, Whole(7))
            \/ FLt(Whole(9), sleep_h) /\ FLe(sleep_h, Whole(10)) THEN <<75, "acceptable">>
    ELSE IF FLe(Whole(5), sleep_h) /\ FLt(sleep_h, Whole(6)) THEN <<55, "short">>
    ELSE <<40, "limits">>

\* Each rule yields <<score, note>>.
SleepRule(sleep_h, lg) ==
    IF sleep_h.k = "none"
    THEN <<60, loc(lg, "No sleep data.", "uk:No sleep data.", "ru:No sleep data.")>>
    ELSE IF FLe(Whole(7), sleep_h) /\ FLe(sleep_h, Whole(9))
    THEN <<90, loc(lg, "Sleep duration is in target range.",
                   "uk:Sleep duration is in target range.",
                   "ru:Sleep duration is in target range.")>>
    ELSE IF \/ FLe(Whole(6), sleep_h) /\ FLt(sleep_h, Whole(7))
            \/ FLt(Whole(9), sleep_h) /\ FLe(sleep_h, Whole(10))
    THEN <<75, loc(lg, "Sleep is acceptable but can be optimized.",
                   "uk:Sleep is acceptable but can be optimized.",
                   "ru:Sleep is acceptable but can be optimized.")>>
    ELSE IF FLe(Whole(5), sleep_h) /\ FLt(sleep_h, Whole(6))
    THEN <<55, loc(lg, "Sleep appears short; increase consistency.",
                   "uk:Sleep appears short; increase consistency.",
                   "ru:Sleep appears short; increase consistency.")>>
    ELSE <<40, loc(lg, "Sleep duration likely limits recovery.",
                   "uk:Sleep duration likely limits recovery.",
                   "ru:Sleep duration likely limits recovery.")>>

\* an activity rule that looks for the digit 2 first
ActivityRuleTwoFirst(training, lg) ==
    IF Contains(training, <<"2">>) THEN <<72, "moderate">>
    ELSE IF \/ Contains(training, <<"3">>)
            \/ Contains(training, <<"4">>)
            \/ Contains(training, <<"5">>) THEN <<85, "strong">>
    ELSE IF strip(training) # <<>> THEN <<62, "exists">>
    ELSE <<60, "limited">>

ActivityRule(training, lg) ==
    IF \/ Contains(training, <<"3">>)
       \/ Contains(training, <<"4">>)
       \/ Contains(training, <<"5">>)
    THEN <<85, loc(lg, "Training frequency appears strong.",
                   "uk:Training frequency appears strong.",
                   "ru:Training frequency appears strong.")>>
    ELSE IF Contains(training, <<"2">>)
    THEN <<72, loc(lg, "Moderate activity; progression recommended.",
                   "uk:Moderate activity; progression recommended.",
                   "ru:Moderate activity; progression recommended.")>>
    ELSE IF strip(training) # <<>>
    THEN <<62, loc(lg, "Activity exists but structure can improve.",
                   "uk:Activity exists but structure can improve.",
                   "ru:Activity exists but structure can improve.")>>
    ELSE <<60, loc(lg, "Training details are limited.",
                   "uk:Training details are limited.",
                   "ru:Training details are limited.")>>

\* lines 225-228
NutritionStyleRule(nutrition, lg) ==
    IF \/ Contains(nutrition, <<"p", "r", "o", "t", "e", "i", "n">>)
       \/ Contains(nutrition, <<"b", "a", "l", "a", "n", "c", "e", "d">>)
    THEN <<82, loc(lg, "Nutrition style looks supportive.",
                   "uk:Nutrition style looks supportive.",
                   "ru:Nutrition style looks supportive.")>>
    ELSE <<65, loc(lg, "Nutrition pattern needs consistency.",
                   "uk:Nutrition pattern needs consistency.",
                   "ru:Nutrition pattern needs consistency.")>>

\* lines 229-231
KetoRule(prev, nutrition, lg) ==
    IF Contains(nutrition, <<"k", "e", "t", "o">>)
    THEN <<IF prev[1] > 75 THEN prev[1] ELSE 75,
           loc(lg, "Structured approach; monitor adherence and recovery.",
               "uk:Structured approach; monitor adherence and recovery.",
               "ru:Structured approach; monitor adherence and recovery.")>>
    ELSE prev

\* lines 232-234
AlcoholRule(prev, alcohol, lg) ==
    IF \/ Contains(alcohol, <<"d", "a", "i", "l", "y">>)
       \/ Contains(alcohol, <<"e", "v", "e", "r", "y", " ", "d", "a", "y">>)
    THEN <<_clamp(prev[1] - 18, 0, 100),
           loc(lg, "Frequent alcohol can reduce recovery quality.",
               "uk:Frequent alcohol can reduce recovery quality.",
               "ru:Frequent alcohol can reduce recovery quality.")>>
    ELSE prev

\* a nutrition rule that takes the alcohol penalty before the keto floor
NutritionRuleAlcoholFirst(nutrition, alcohol, lg) ==
    KetoRule(AlcoholRule(NutritionStyleRule(nutrition, lg), alcohol, lg), nutrition, lg)

NutritionRule(nutrition, alcohol, lg) ==
    AlcoholRule(KetoRule(NutritionStyleRule(nutrition, lg), nutrition, lg), alcohol, lg)

\* a recovery rule whose lowest bucket ends below 3
RecoveryRuleOpenAtThree(stress, lg) ==
    IF stress.k = "none" THEN <<65, "monitor">>
    ELSE IF FLt(stress, Whole(3)) THEN <<88, "low">>
    ELSE IF FLe(stress, Whole(6)) THEN <<72, "moderate">>
    ELSE IF FLe(stress, Whole(8)) THEN <<55, "elevated">>
    ELSE <<42, "high">>

RecoveryRule(stress, lg) ==
    IF stress.k = "none"
    THEN <<65, loc(lg, "Stress management should be monitored.",
                   "uk:Stress management should be monitored.",
                   "ru:Stress management should be monitored.")>>
    ELSE IF FLe(stress, Whole(3))
    THEN <<88, loc(lg, "Low stress profile supports recovery.",
                   "uk:Low stress profile supports recovery.",
                   "ru:Low stress profile supports recovery.")>>
    ELSE IF FLe(stress, Whole(6))
    THEN <<72, loc(lg, "Moderate stress; maintain recovery routines.",
                   "uk:Moderate stress; maintain recovery routines.",
                   "ru:Moderate stress; maintain recovery routines.")>>
    ELSE IF FLe(stress, Whole(8))
    THEN <<55, loc(lg, "Elevated stress; add daily down-regulation.",
                   "uk:Elevated stress; add daily down-regulation.",
                   "ru:Elevated stress; add daily down-regulation.")>>
    ELSE <<42, loc(lg, "High stress likely affects progress.",
                   "uk:High stress likely affects progress.",
                   "ru:High stress likely affects progress.")>>

\* a rule that reads the answer "sometimes" in English reports only
SometimesRuleInEnglish(smoking, lg) ==
    IF lg \notin {"uk", "ru"} /\ smoking = <<"s", "o", "m", "e", "t", "i", "m", "e", "s">>
    THEN <<62, loc(lg, "Smoking risk is present; reduction advised.",
                   "uk:Smoking risk is present; reduction advised.",
                   "ru:Smoking risk is present; reduction advised.")>>
    ELSE <<80, loc(lg, "No major lifestyle risk marker detected.",
                   "uk:No major lifestyle risk marker detected.",
                   "ru:No major lifestyle risk marker detected.")>>

\* lines 248-251
SometimesRule(smoking, lg) ==
    IF smoking = <<"s", "o", "m", "e", "t", "i", "m", "e", "s">>
    THEN <<62, loc(lg, "Smoking risk is present; reduction advised.",
                   "uk:Smoking risk is present; reduction advised.",
                   "ru:Smoking risk is present; reduction advised.")>>
    ELSE <<80, loc(lg, "No major lifestyle risk marker detected.",
                   "uk:No major lifestyle risk marker detected.",
                   "ru:No major lifestyle risk marker detected.")>>

\* a risk rule without the check for "yes"
RiskRuleWithoutYes(smoking, lg) == SometimesRule(smoking, lg)

\* lines 248-253
RiskRule(smoking, lg) ==
    IF smoking = <<"y", "e", "s">>
    THEN <<40, loc(lg, "Smoking is a high-priority risk factor.",
                   "uk:Smoking is a high-priority risk factor.",
                   "ru:Smoking is a high-priority risk factor.")>>
    ELSE SometimesRule(smoking, lg)

SectionLabels(lg) ==
    IF lg = "uk"
    THEN <<"U+0421 U+043E U+043D", "uk:Activity", "uk:Nutrition", "uk:Recovery", "uk:Risk">>
    ELSE IF lg = "ru"
    THEN <<"U+0421 U+043E U+043D", "ru:Activity", "ru:Nutrition", "ru:Recovery", "ru:Risk">>
    ELSE <<"Sleep", "Activity", "Nutrition", "Recovery", "Risk">>

\* lines 262-268
ScoreRows(labels, rules) ==
    [i \in 1..5 |->
        [section |-> labels[i], score |-> _clamp(rules[i][1], 0, 100), note |-> rules[i][2]]]

\* str(answers.get(key, "")).lower()
LowerAnswer(ans, key) == lower(PyStr(GetD(ans, key, Str(<<>>))))

_compute_section_scores(ans, lg) ==
    ScoreRows(SectionLabels(lg),
              <<SleepRule(_to_float(Get(ans, "sleep_hours")), lg),
                ActivityRule(LowerAnswer(ans, "training"), lg),
                NutritionRule(LowerAnswer(ans, "nutrition"), LowerAnswer(ans, "alcohol"), lg),
                RecoveryRule(_to_float(Get(ans, "stress")), lg),
                RiskRule(LowerAnswer(ans, "smoking"), lg)>>)

(***************************************************************************)
(* Serialised text and the Cyrillic test.                                  *)
(***************************************************************************)
\* The symbols of the model that hold a character in U+0400..U+04FF.
CyrillicRuns ==
    {"uk:90-dennyi plan", "ru:90-dnevnyi plan",
     "uk:This report is educational and not medical advice.",
     "ru:This report is educational and not medical advice.",
     "uk:Improve health markers and consistency",
     "ru:Improve health markers and consistency",
     "uk:Repeat assessment in 30 days and compare trends.",
     "ru:Repeat assessment in 30 days and compare trends.",
     "U+0442 U+0435 U+043A U+0441 U+0442", "U+0436", "U+0438", "U+0440"}

\* json.dumps of a float: NaN, Infinity, -Infinity, or the decimal digits
FloatText(kind, n) ==
    IF kind = "nan" THEN <<"NaN">>
    ELSE IF kind = "inf" THEN (IF n < 0 THEN <<"-">> ELSE <<>>) \o <<"Infinity">>
    ELSE IF kind = "tiny" THEN (IF n < 0 THEN <<"-">> ELSE <<>>) \o <<"1e-170">>
    ELSE (IF n < 0 THEN <<"-">> ELSE <<>>)
         \o NatDigits((IF n < 0 THEN -n ELSE n) \div Scale)
         \o <<".">> \o NatDigits((IF n < 0 THEN -n ELSE n) % Scale)

RECURSIVE _json_text(_)
RECURSIVE JoinItems(_)
RECURSIVE JoinMembers(_, _)

\* json.dumps(data, ensure_ascii=False): keys, strings and punctuation
_json_text(v) ==
    CASE v.t = "str"  -> <<"\"">> \o v.s \o <<"\"">>
      [] v.t = "num"  -> IF v.s = <<"int">> THEN NatDigits(v.n) ELSE FloatText(v.s[1], v.n)
      [] v.t = "list" -> <<"[">> \o JoinItems(v.l) \o <<"]">>
      [] v.t = "obj"  -> <<"{">> \o JoinMembers(v.o, DOMAIN v.o) \o <<"}">>
      [] OTHER        -> <<"null">>

JoinItems(items) ==
    IF items = <<>> THEN <<>>
    ELSE _json_text(Head(items))
         \o (IF Len(items) > 1 THEN <<",", " ">> ELSE <<>>)
         \o JoinItems(Tail(items))

JoinMembers(d, keys) ==
    IF keys = {} THEN <<>>
    ELSE LET k == CHOOSE x \in keys : TRUE
         IN  <<"\"", k, "\"", ":", " ">> \o _json_text(d[k])
             \o (IF keys # {k} THEN <<",", " ">> ELSE <<>>)
             \o JoinMembers(d, keys \ {k})

\* re.search over U+0400..U+04FF
_has_cyrillic(txt) == \E i \in 1..Len(txt) : txt[i] \in CyrillicRuns

\* lines 34-37, on the serialised text
WrongLanguageText(txt) == IF strip(txt) = <<>> THEN FALSE ELSE ~_has_cyrillic(txt)

\* a language check that lets every object through
never_wrong_language(d, lg) == FALSE

_is_wrong_language(d, lg) ==
    IF lg \notin {"uk", "ru"} THEN FALSE ELSE WrongLanguageText(_json_text(Obj(d)))

(***************************************************************************)
(* The deterministic report.                                               *)
(***************************************************************************)
_local(lg, en, uk, ru) == IF lg = "uk" THEN uk ELSE IF lg = "ru" THEN ru ELSE en

\* a float as a JSON number, None as null
NumF(f) ==
    IF f.k = "none" THEN Null
    ELSE [t |-> "num", s |-> <<f.k>>, n |-> f.n, l |-> <<>>, o |-> <<>>]

\* round(num / den) for num >= 0 and den > 0, ties to the even neighbour
RoundHalfEven(num, den) ==
    LET q == num \div den
        r == num % den
    IN  IF 2 * r < den THEN q
        ELSE IF 2 * r > den THEN q + 1
        ELSE IF q % 2 = 0 THEN q ELSE q + 1

\* bmi of _assessment_context: None unless both values are truthy and > 0
Truthy(f) == f.k # "none" /\ ~(f.k = "fin" /\ f.n = 0)

\* the float division raised ZeroDivisionError
ZeroDivision == [k |-> "raise", n |-> 0]

\* lines 87-90: h_m * h_m is 0.0 for a tiny height, and dividing by it raises
Bmi(height_cm, weight_kg) ==
        IF ~(/\ Truthy(height_cm) /\ FLt(Whole(0), height_cm)
             /\ Truthy(weight_kg) /\ FLt(Whole(0), weight_kg))
        THEN NoFloat
        ELSE IF height_cm.k = "tiny" THEN ZeroDivision
        ELSE IF height_cm.k = "inf" /\ weight_kg.k = "inf" THEN NaN
        ELSE IF height_cm.k = "inf" THEN Fin(0)
        ELSE IF weight_kg.k = "inf" THEN Inf(1)
        ELSE IF weight_kg.k = "tiny" THEN Fin(0)
        ELSE Fin(RoundHalfEven(weight_kg.n * Scale * 100000,
                               height_cm.n * height_cm.n) * (Scale \div 10))

\* datetime.now(tz=utc).replace(microsecond=0).isoformat()
isoformat(now) == Str(<<"utc:">> \o NatDigits(now))

\* ctx: the parts the report is built from (answers_labeled only feeds the prompt)
DerivedMetrics(age, height_cm, weight_kg, sleep_hours, stress) ==
    Obj([age         |-> NumF(age),
         height_cm   |-> NumF(height_cm),
         weight_kg   |-> NumF(weight_kg),
         sleep_hours |-> NumF(sleep_hours),
         stress_1_10 |-> NumF(stress),
         bmi         |-> NumF(Bmi(height_cm, weight_kg))])

_assessment_context(ans, lg, now) ==
    [generated_at_utc |-> isoformat(now),
     raw_answers      |-> ans,
     derived_metrics  |->
         DerivedMetrics(_to_float(Get(ans, "age")),
                        _to_float(Get(ans, "height_cm")),
                        _to_float(Get(ans, "weight_kg")),
                        _to_float(Get(ans, "sleep_hours")),
                        _to_float(Get(ans, "stress")))]

Phrases(names) == List([i \in 1..Len(names) |-> Str(<<names[i]>>)])

Week(n, focus, actions) ==
    Obj([week |-> Num(n), focus |-> Str(<<focus>>), actions |-> Phrases(actions)])

Phase(name, objective, habits, training, nutrition, recovery) ==
    Obj([name      |-> Str(<<name>>),
         objective |-> Str(<<objective>>),
         habits    |-> Phrases(habits),
         training  |-> Phrases(training),
         nutrition |-> Phrases(nutrition),
         recovery  |-> Phrases(recovery)])

\* the report built from ctx c and the stripped goal
MockDocument(ans, lg, c, goal) ==
        [title |-> Str(_local(lg,
                    <<"BioAge Reset Protocol - 90-Day Plan">>,
                    <<"BioAge Reset Protocol - ", "uk:90-dennyi plan">>,
                    <<"BioAge Reset Protocol - ", "ru:90-dnevnyi plan">>)),
         generated_at_utc |-> c.generated_at_utc,
         language |-> Str(<<lg>>),
         disclaimer |-> Str(_local(lg,
                    <<"This report is educational and not medical advice.">>,
                    <<"uk:This report is educational and not medical advice.">>,
                    <<"ru:This report is educational and not medical advice.">>)),
         profile |-> Obj(
             [goal |-> Str(IF goal # <<>> THEN goal
                           ELSE _local(lg,
                                <<"Improve health markers and consistency">>,
                                <<"uk:Improve health markers and consistency">>,
                                <<"ru:Improve health markers and consistency">>)),
              derived_metrics |-> c.derived_metrics]),
         executive_summary |-> Phrases(
             <<"Focus on sleep regularity, strength training consistency, and nutrition quality.",
               "Keep stress under control with a daily recovery routine.">>),
         priority_actions |-> Phrases(
             <<"Sleep 7.5-8.5 hours with fixed bedtime/wakeup window.",
               "Strength train 3x/week and walk 8k-10k steps daily.",
               "Protein-first meals and hydration target each day.">>),
         risk_flags |-> Phrases(
             <<"If symptoms worsen or you have chronic conditions, consult a licensed clinician.">>),
         summary |-> Obj(
             [bioage_estimate |-> Str(<<"N/A (mock)">>),
              key_focus |-> Phrases(<<"sleep", "nutrition", "training", "stress">>)]),
         plan_90_days |-> List(
             <<Week(1, "baseline", <<"Track sleep", "Daily walk 30 min", "Protein target">>),
               Week(2, "consistency", <<"Strength 3x", "Bedtime routine", "Hydration">>)>>),
         phases |-> List(
             <<Phase("Days 1-30: Foundation",
                     "Build routine and baseline consistency.",
                     <<"Track sleep", "Morning light", "Daily walk">>,
                     <<"2-3 strength sessions/week", "2 cardio sessions/week">>,
                     <<"Protein target", "Whole-food meals", "Limit alcohol">>,
                     <<"Evening wind-down", "Stress breathing 10 min/day">>),
               Phase("Days 31-60: Progression",
                     "Increase workload gradually while maintaining recovery.",
                     <<"Step goal progression", "Weekly check-in">>,
                     <<"Progressive overload", "Zone-2 cardio">>,
                     <<"Fiber target", "Meal timing consistency">>,
                     <<"1 deload day/week", "Screen cut-off before sleep">>),
               Phase("Days 61-90: Optimization",
                     "Refine plan based on adherence and response.",
                     <<"Review adherence", "Adjust weak points">>,
                     <<"Maintain intensity", "Technique quality">>,
                     <<"Fine-tune calories", "Hydration and electrolytes">>,
                     <<"Stress-management consistency", "Recovery audit">>)>>),
         answers |-> Obj(ans),
         next_steps |-> List(
             <<Str(_local(lg,
                    <<"Repeat assessment in 30 days and compare trends.">>,
                    <<"uk:Repeat assessment in 30 days and compare trends.">>,
                    <<"ru:Repeat assessment in 30 days and compare trends.">>))>>)]

\* _assessment_context raises instead of returning
ContextRaises(ans) ==
    Bmi(_to_float(Get(ans, "height_cm")), _to_float(Get(ans, "weight_kg"))) = ZeroDivision

\* a report whose title carries the time of its generation
mock_report_dated(ans, lg, now) ==
    Put(MockDocument(ans, lg, _assessment_context(ans, lg, now),
                     strip(PyStr(GetD(ans, "goal", Str(<<>>))))),
        "title", isoformat(now))

_mock_report(ans, lg, now) ==
    MockDocument(ans, lg, _assessment_context(ans, lg, now),
                 strip(PyStr(GetD(ans, "goal", Str(<<>>)))))

\* an exception on its way to the caller, in the place of a returned value
Raise(name) == [t |-> "raise", s |-> <<name>>, n |-> 0, l |-> <<>>, o |-> <<>>]

\* what a call of _mock_report comes to: the document, or the exception of line 90
MockOutcome(ans, lg, now) ==
    IF ContextRaises(ans) THEN Raise("ZeroDivisionError") ELSE Obj(_mock_report(ans, lg, now))

(***************************************************************************)
(* The text-generation provider: what a call may come back with.           *)
(***************************************************************************)
SchemaKeys ==
    {"title", "generated_at_utc", "language", "disclaimer", "profile",
     "executive_summary", "priority_actions", "risk_flags", "summary",
     "plan_90_days", "phases", "warnings", "next_steps"}

ReplyKeys == SchemaKeys \cup {"answers"}

ProviderText(cyr) ==
    IF cyr THEN <<"U+0442 U+0435 U+043A U+0441 U+0442">> ELSE <<"provider text">>

\* A value of the type the schema declares for the key.
WellTyped(k, cyr) ==
    LET txt == Str(ProviderText(cyr))
    IN  CASE k \in {"title", "generated_at_utc", "language", "disclaimer"} -> txt
          [] k = "profile" ->
                Obj([goal |-> txt, derived_metrics |-> Obj(EmptyDict)])
          [] k = "summary" ->
                Obj([bioage_estimate |-> txt, key_focus |-> List(<<txt>>)])
          [] k = "plan_90_days" ->
                List(<<Obj([week |-> Num(1), focus |-> txt, actions |-> List(<<txt>>)])>>)
          [] k = "phases" ->
                List(<<Obj([name |-> txt, objective |-> txt, habits |-> List(<<txt>>),
                            training |-> List(<<txt>>), nutrition |-> List(<<txt>>),
                            recovery |-> List(<<txt>>)])>>)
          [] k = "answers" -> Obj([age |-> Str(<<"9", "9">>)])
          [] OTHER -> List(<<txt>>)

\* A value of another type than the schema declares.
WrongTyped(k, cyr) ==
    IF k \in {"title", "generated_at_utc", "language", "disclaimer"}
    THEN Num(7)
    ELSE Str(ProviderText(cyr))

DeviationKinds == {"toggle", "wrong_type", "partial"}

Deviate(base, S, kind, cyr) ==
    LET keep == {k \in DOMAIN base : ~(k \in S /\ kind[k] = "toggle")}
        add  == {k \in S : k \notin DOMAIN base \/ kind[k] # "toggle"}
    IN  [k \in keep \cup add |->
            IF k \notin S THEN base[k]
            ELSE IF kind[k] = "toggle" THEN WellTyped(k, cyr)
            ELSE IF kind[k] = "wrong_type" THEN WrongTyped(k, cyr)
            ELSE Obj([key_focus |-> List(<<>>)])]

\* follows the schema / holds plan_90_days and nothing else
BaseReplies(cyr) ==
    {[k \in SchemaKeys |-> WellTyped(k, cyr)],
     [k \in {"plan_90_days"} |-> WellTyped(k, cyr)]}

\* the replies that deviate from base in at most MaxDeviations keys
DeviantReplies(base, cyr) ==
    UNION { { Deviate(base, S, kind, cyr) :
                kind \in {f \in [S -> DeviationKinds] :
                            \A k \in S : f[k] = "partial" => k = "summary"} } :
            S \in {T \in SUBSET ReplyKeys : Cardinality(T) <= MaxDeviations} }

ReplyDicts ==
    UNION { UNION { DeviantReplies(base, cyr) : base \in BaseReplies(cyr) } :
            cyr \in BOOLEAN }

NoText == [got |-> FALSE, valid |-> FALSE, json |-> Null]

InvalidText == [got |-> TRUE, valid |-> FALSE, json |-> Null]

JsonText(v) == [got |-> TRUE, valid |-> TRUE, json |-> v]

ReplyTexts ==
    {InvalidText, JsonText(Null), JsonText(List(<<>>)), JsonText(Str(<<"provider text">>))}
    \cup {JsonText(Obj(d)) : d \in ReplyDicts}

\* a call raises, or returns a text
ProviderOutcomes ==
    {[ok |-> FALSE, text |-> NoText]} \cup {[ok |-> TRUE, text |-> t] : t \in ReplyTexts}

\* the chat call raises, or returns a text; message.content may also be None
\* or empty
ChatOutcomes ==
    {[ok |-> FALSE, text |-> NoText], [ok |-> TRUE, text |-> NoText],
     [ok |-> TRUE, text |-> InvalidText], [ok |-> TRUE, text |-> JsonText(List(<<>>))]}
    \cup {[ok |-> TRUE, text |-> JsonText(Obj(d))] :
            d \in BaseReplies(TRUE) \cup BaseReplies(FALSE)
                  \cup {[k \in {"title"} |-> WellTyped(k, FALSE)]}}

RECURSIVE Translated(_)
\* a translation that keeps structure, keys and numbers
Translated(v) ==
    CASE v.t = "str"  -> Str(ProviderText(TRUE))
      [] v.t = "list" -> List([i \in 1..Len(v.l) |-> Translated(v.l[i])])
      [] v.t = "obj"  -> Obj([k \in DOMAIN v.o |-> Translated(v.o[k])])
      [] OTHER        -> v

\* what the translation call may come back with for the object d
TranslateOutcomesOf(d, tr) ==
        {[ok |-> FALSE, text |-> NoText],
         [ok |-> TRUE, text |-> InvalidText],
         [ok |-> TRUE, text |-> JsonText(List(<<>>))],
         [ok |-> TRUE, text |-> JsonText(Obj(tr))],
         [ok |-> TRUE, text |-> JsonText(Obj(d))],
         [ok |-> TRUE, text |-> JsonText(Obj(EmptyDict))],
         [ok |-> TRUE, text |-> JsonText(Obj([note |-> Str(ProviderText(TRUE))]))]}
        \cup {[ok |-> TRUE, text |-> JsonText(Obj([k \in (DOMAIN tr) \ {x} |-> tr[k]]))] :
                x \in {"summary", "plan_90_days", "phases"}}
        \cup {[ok |-> TRUE, text |-> JsonText(Obj(Put(tr, k, WrongTyped(k, TRUE))))] :
                k \in {"summary", "plan_90_days", "phases"}}

TranslateOutcomes(d) == TranslateOutcomesOf(d, Translated(Obj(d)).o)

(***************************************************************************)
(* generate_report_json.                                                   *)
(***************************************************************************)
\* a gate that asks for an object and not for plan_90_days
accepts_any_object(v) == v.t = "obj"

\* the gate of line 294
basic_validation(v) == v.t = "obj" /\ "plan_90_days" \in DOMAIN v.o

DefaultSummary == Obj([bioage_estimate |-> Str(<<"N/A">>), key_focus |-> List(<<>>)])

\* lines 305-306
FixSummary(d) ==
    IF Get(d, "summary").t # "obj" THEN Put(d, "summary", DefaultSummary) ELSE d

\* lines 307-308
FixPlan(d) ==
    IF Get(d, "plan_90_days").t # "list" THEN Put(d, "plan_90_days", List(<<>>)) ELSE d

\* lines 296-308
Backfill(d, ans, lg, c) ==
    LET d1  == setdefault(d, "language", Str(<<lg>>))
        d2  == setdefault(d1, "generated_at_utc", c.generated_at_utc)
        d3  == setdefault(d2, "title", Str(<<"BioAge Reset Protocol - 90-Day Plan">>))
        d4  == setdefault(d3, "profile",
                   Obj([goal |-> Str(PyStr(GetD(ans, "goal", Str(<<>>)))),
                        derived_metrics |-> c.derived_metrics]))
        d5  == setdefault(d4, "executive_summary", List(<<>>))
        d6  == setdefault(d5, "priority_actions", List(<<>>))
        d7  == setdefault(d6, "risk_flags", List(<<>>))
        d8  == setdefault(d7, "phases", List(<<>>))
        d9  == setdefault(d8, "next_steps", List(<<>>))
    IN  FixPlan(FixSummary(d9))

\* _translate_report_json: the parsed object, or None
_translate_report_json(out) ==
    IF out.ok /\ out.text.valid /\ out.text.json.t = "obj" THEN out.text.json ELSE Null

NoCtx == [generated_at_utc |-> Null, raw_answers |-> EmptyDict, derived_metrics |-> Null]

\* return _mock_report(answers, lang), some time after the invocation began
return_mock(p) ==
    \E now \in clock..MaxClock :
        /\ clock' = now
        /\ ret' = MockOutcome(answers, lang, now)
        /\ path' = p
        /\ pc' = "done"

\* except Exception: return _mock_report(answers, lang)
except_handler == return_mock("except")

\* a first step that takes the generative path without a credential
generate_without_key ==
    /\ pc = "call"
    /\ ~api_key
    /\ ctx' = _assessment_context(answers, lang, clock)
    /\ pc' = "responses"
    /\ UNCHANGED <<answers, lang, scores, api_key, clock, calls, raised, text, data, ret, path>>
    /\ UNCHANGED flowVars
    /\ UNCHANGED <<pdfVars, hostVars>>

\* lines 193-194: if not settings.openai_api_key: return _mock_report(answers, lang)
generate_no_key ==
    /\ pc = "call"
    /\ ~api_key
    /\ return_mock("no_key")
    /\ UNCHANGED <<answers, lang, scores, api_key, ctx, calls, raised, text, data>>
    /\ UNCHANGED flowVars
    /\ UNCHANGED <<pdfVars, hostVars>>

open_client ==
    /\ pc = "call"
    /\ api_key
    /\ \E ok \in BOOLEAN :
          IF ~ok
          THEN /\ raised' = raised \cup {"client"}
               /\ except_handler
               /\ UNCHANGED ctx
          ELSE IF ContextRaises(answers)
          THEN /\ raised' = raised \cup {"context"}
               /\ except_handler
               /\ UNCHANGED ctx
          ELSE /\ ctx' = _assessment_context(answers, lang, clock)
               /\ pc' = "responses"
               /\ UNCHANGED <<clock, raised, ret, path>>
    /\ UNCHANGED <<answers, lang, scores, api_key, calls, text, data>>
    /\ UNCHANGED flowVars
    /\ UNCHANGED <<pdfVars, hostVars>>

call_responses ==
    /\ pc = "responses"
    /\ \E out \in ProviderOutcomes :
          /\ calls' = Append(calls, [api |-> "responses", ok |-> out.ok])
          /\ IF out.ok
             THEN /\ text' = out.text
                  /\ pc' = "parse"
                  /\ UNCHANGED raised
             ELSE /\ raised' = raised \cup {"responses"}
                  /\ pc' = "chat"
                  /\ UNCHANGED text
    /\ UNCHANGED <<answers, lang, scores, api_key, clock, ctx, data, ret, path>>
    /\ UNCHANGED flowVars
    /\ UNCHANGED <<pdfVars, hostVars>>

\* a chat call that is made again after it has raised
call_chat_again ==
    /\ pc = "chat"
    /\ \E out \in ChatOutcomes :
          /\ calls' = Append(calls, [api |-> "chat", ok |-> out.ok])
          /\ IF out.ok
             THEN /\ text' = IF out.text.got THEN out.text ELSE JsonText(Obj(EmptyDict))
                  /\ pc' = "parse"
                  /\ UNCHANGED <<raised, clock, ret, path>>
             ELSE /\ raised' = raised \cup {"chat"}
                  /\ IF Len(calls) < 2 THEN UNCHANGED <<pc, clock, ret, path>>
                     ELSE except_handler
                  /\ UNCHANGED text
    /\ UNCHANGED <<answers, lang, scores, api_key, ctx, data>>
    /\ UNCHANGED flowVars
    /\ UNCHANGED <<pdfVars, hostVars>>

call_chat ==
    /\ pc = "chat"
    /\ \E out \in ChatOutcomes :
          /\ calls' = Append(calls, [api |-> "chat", ok |-> out.ok])
          /\ IF out.ok
             THEN /\ text' = IF out.text.got THEN out.text ELSE JsonText(Obj(EmptyDict))
                  /\ pc' = "parse"
                  /\ UNCHANGED <<raised, clock, ret, path>>
             ELSE /\ raised' = raised \cup {"chat"}
                  /\ except_handler
                  /\ UNCHANGED text
    /\ UNCHANGED <<answers, lang, scores, api_key, ctx, data>>
    /\ UNCHANGED flowVars
    /\ UNCHANGED <<pdfVars, hostVars>>

parse_reply ==
    /\ pc = "parse"
    /\ IF ~text.valid
       THEN /\ raised' = raised \cup {"json"}
            /\ except_handler
            /\ UNCHANGED data
       ELSE IF ~basic_validation(text.json)
       THEN /\ return_mock("gate")
            /\ UNCHANGED <<raised, data>>
       ELSE /\ data' = Backfill(text.json.o, answers, lang, ctx)
            /\ UNCHANGED <<raised, clock>>
            /\ IF lang \in {"uk", "ru"}
               THEN /\ pc' = "translate"
                    /\ UNCHANGED <<ret, path>>
               ELSE /\ ret' = Obj(data')
                    /\ path' = "generated"
                    /\ pc' = "done"
    /\ UNCHANGED <<answers, lang, scores, api_key, ctx, calls, text>>
    /\ UNCHANGED flowVars
    /\ UNCHANGED <<pdfVars, hostVars>>

translate_pass ==
    /\ pc = "translate"
    /\ \E out \in TranslateOutcomes(data) :
          LET translated == _translate_report_json(out)
              result     == IF translated.t = "obj" THEN translated.o ELSE data
          IN  /\ calls' = Append(calls, [api |-> "translate", ok |-> out.ok])
              /\ raised' = IF out.ok /\ out.text.valid THEN raised
                           ELSE raised \cup {"translate"}
              /\ data' = result
              /\ IF _is_wrong_language(result, lang)
                 THEN return_mock("wrong_language")
                 ELSE /\ ret' = Obj(result)
                      /\ path' = "generated"
                      /\ pc' = "done"
                      /\ UNCHANGED clock
    /\ UNCHANGED <<answers, lang, scores, api_key, ctx, text>>
    /\ UNCHANGED flowVars
    /\ UNCHANGED <<pdfVars, hostVars>>

(***************************************************************************)
(* The invocations of generate_report_json that are checked.               *)
(***************************************************************************)
Langs == {"en", "uk", "ru", "de"}

ScenarioAnswers ==
    [age         |-> Str(<<"4", "5">>),
     sex         |-> Str(<<"m", "a", "l", "e">>),
     height_cm   |-> Str(<<"1", "8", "0">>),
     weight_kg   |-> Str(<<"9", "0">>),
     sleep_hours |-> Str(<<"6">>),
     training    |-> Str(<<"3", "x", " ", "g", "y", "m">>),
     nutrition   |-> Str(<<"b", "a", "l", "a", "n", "c", "e", "d">>),
     stress      |-> Str(<<"4">>),
     smoking     |-> Str(<<"n", "o">>),
     alcohol     |-> Str(<<"r", "a", "r", "e", "l", "y">>),
     conditions  |-> Str(<<>>),
     goal        |-> Str(<<"l", "o", "s", "e", " ", "f", "a", "t">>)]

CyrillicGoalAnswers ==
    [height_cm   |-> Str(<<"1", "8", "0">>),
     weight_kg   |-> Str(<<"8", "1", ",", "0">>),
     sleep_hours |-> Str(<<"7", ",", "5">>),
     stress      |-> Str(<<"9">>),
     smoking     |-> Str(<<"y", "e", "s">>),
     goal        |-> Str(<<"U+0436", "U+0438", "U+0440">>)]

\* a height that float() reads as a positive number whose square is 0.0
TinyHeightAnswers ==
    [height_cm |-> Str(<<"1", "e", "-", "1", "7", "0">>),
     weight_kg |-> Str(<<"7", "0">>)]

GenAnswerSets == {EmptyDict, ScenarioAnswers, CyrillicGoalAnswers, TinyHeightAnswers}

NoAssessment == [status |-> "none", answers |-> EmptyDict]

Init ==
    /\ answers \in GenAnswerSets
    /\ lang \in Langs
    /\ api_key \in BOOLEAN
    /\ pc = "call"
    /\ scores = <<>>
    /\ clock = 0
    /\ ctx = NoCtx
    /\ calls = <<>>
    /\ raised = {}
    /\ text = NoText
    /\ data = EmptyDict
    /\ ret = Null
    /\ path = "none"
    /\ assessment = NoAssessment
    /\ reports = <<>>
    /\ user = [plan |-> "free", language |-> "en"]
    /\ queue = <<>>
    /\ story = <<>>
    /\ request = NoRequest
    /\ response = Page("none")
    /\ HostIdle

Next ==
    \/ generate_no_key
    \/ open_client
    \/ call_responses
    \/ call_chat
    \/ parse_reply
    \/ translate_pass

Spec == Init /\ [][Next]_vars

(***************************************************************************)
(* Properties of generate_report_json.                                     *)
(***************************************************************************)
Done == pc = "done"

\* the invocation returned a value to its caller
Returned == Done /\ ret.t # "raise"

Accepted == Done /\ path = "generated"

\* the deterministic report for the invocation's AnswerSet and language
DeterministicReport == MockOutcome(answers, lang, 0)

SameApartFromTime(a, b) ==
    /\ a.t = "obj" /\ b.t = "obj"
    /\ DOMAIN a.o = DOMAIN b.o
    /\ \A k \in (DOMAIN a.o) \ {"generated_at_utc"} : a.o[k] = b.o[k]

FailedCall(api) == \E i \in 1..Len(calls) : calls[i].api = api /\ ~calls[i].ok

MadeCall(api) == \E i \in 1..Len(calls) : calls[i].api = api

SchemaValid(v) ==
    /\ v.t = "obj"
    /\ {"title", "generated_at_utc", "language", "disclaimer", "summary",
        "plan_90_days"} \subseteq DOMAIN v.o
    /\ v.o["plan_90_days"].t = "list"
    /\ Get(v.o, "phases").t = "list"
    /\ v.o["summary"].t = "obj"
    /\ {"bioage_estimate", "key_focus"} \subseteq DOMAIN v.o["summary"].o

\* C1: whatever the provider does, the returned document holds title,
\* generated_at_utc, language, disclaimer, summary and plan_90_days, its
\* plan_90_days and phases are lists and its summary is an object holding
\* bioage_estimate and key_focus.
C1_ReturnedDocumentIsSchemaValid == Returned => SchemaValid(ret)

\* an accepted English reply that holds plan_90_days alone comes back without
\* a disclaimer
C1_AcceptedWithoutDisclaimer ==
    /\ Accepted
    /\ lang = "en"
    /\ text = JsonText(Obj([k \in {"plan_90_days"} |-> WellTyped(k, FALSE)]))
    /\ "disclaimer" \notin DOMAIN ret.o

\* C2 as stated: with a credential configured, an exception in any step of
\* the generative path (a provider call among them) ends in a document equal
\* to the deterministic report apart from generated_at_utc.
C2_AnyExceptionGivesDeterministic ==
    (Done /\ api_key /\ raised # {}) => SameApartFromTime(ret, DeterministicReport)

\* building the context raised, and so did _mock_report in the except
\* handler: the caller got the ZeroDivisionError
C2_HandlerRaisedToCaller ==
    /\ Done
    /\ api_key
    /\ raised = {"context"}
    /\ path = "except"
    /\ ret = Raise("ZeroDivisionError")

ReportAnswers(doc) ==
    IF Get(doc.o, "answers") \in {Null, Obj(EmptyDict), Str(<<>>), List(<<>>)}
    THEN Obj(EmptyDict)
    ELSE doc.o["answers"]

\* C4: on every path the returned document carries under answers the
\* AnswerSet of the invocation, so the section scores build_pdf derives from
\* the document are the scores of that AnswerSet.
C4_DocumentCarriesAnswers ==
    Returned => /\ "answers" \in DOMAIN ret.o
                /\ ret.o["answers"] = Obj(answers)
                /\ _compute_section_scores(ReportAnswers(ret).o, lang)
                   = _compute_section_scores(answers, lang)

\* an accepted reply comes back without answers, and the scores of the empty
\* AnswerSet are not those of the invocation's AnswerSet
C4_AcceptedWithoutAnswers ==
    /\ Accepted
    /\ lang = "en"
    /\ answers = ScenarioAnswers
    /\ "answers" \notin DOMAIN ret.o
    /\ _compute_section_scores(ReportAnswers(ret).o, lang)
           # _compute_section_scores(answers, lang)

\* C5: for uk and ru, a result without any Cyrillic character after the
\* translation pass is discarded for the deterministic report, and every
\* returned document holds a Cyrillic character.
C5_NoCyrillicIsDiscarded ==
    (Returned /\ lang \in {"uk", "ru"})
        => /\ _has_cyrillic(_json_text(ret))
           /\ (MadeCall("translate") /\ ~_has_cyrillic(_json_text(Obj(data))))
                => (path = "wrong_language"
                    /\ SameApartFromTime(ret, DeterministicReport))

\* the translation call raised and the untranslated Russian result, which
\* holds no Cyrillic character, was discarded
C5_UntranslatedResultDiscarded ==
    /\ Done
    /\ lang = "ru"
    /\ FailedCall("translate")
    /\ ~_has_cyrillic(_json_text(Obj(data)))
    /\ path = "wrong_language"

\* C6: a reply that does not parse to an object, or parses to an object
\* without plan_90_days, is not returned; the deterministic report is.
C6_GateRejectsReply ==
    (Done /\ text.got
          /\ (~text.valid \/ text.json.t # "obj"
                \/ "plan_90_days" \notin DOMAIN text.json.o))
        => /\ path \in {"except", "gate"}
           /\ ret # text.json
           /\ SameApartFromTime(ret, DeterministicReport)

\* the reply parsed to an object that holds no plan_90_days
C6_ObjectWithoutPlanRejected ==
    /\ Done
    /\ text.valid
    /\ text.json.t = "obj"
    /\ text.json.o # EmptyDict
    /\ "plan_90_days" \notin DOMAIN text.json.o
    /\ path = "gate"

BackfilledKeys ==
    {"language", "generated_at_utc", "title", "profile", "executive_summary",
     "priority_actions", "risk_flags", "phases", "next_steps"}

BackfilledLists ==
    {"executive_summary", "priority_actions", "risk_flags", "phases", "next_steps"}

\* C7: every accepted result holds the backfilled fields, the list fields the
\* provider left out as empty lists, the default summary where the provider's
\* summary was no object and an empty plan_90_days where the provider's was
\* no list.
C7_AcceptedResultIsBackfilled ==
    Accepted =>
        /\ BackfilledKeys \subseteq DOMAIN ret.o
        /\ \A k \in BackfilledLists \ DOMAIN text.json.o : Get(ret.o, k) = List(<<>>)
        /\ Get(text.json.o, "summary").t # "obj" => Get(ret.o, "summary") = DefaultSummary
        /\ text.json.o["plan_90_days"].t # "list" => Get(ret.o, "plan_90_days") = List(<<>>)

\* the translation pass returned an object with one key, which was accepted
\* for Russian in place of the backfilled result
C7_TranslatedObjectReplacesBackfill ==
    /\ Accepted
    /\ lang = "ru"
    /\ ret = Obj([note |-> Str(ProviderText(TRUE))])

(***************************************************************************)
(* The assessment questionnaire and the start of a report.                 *)
(***************************************************************************)
Question(qid, kind, required, choices) ==
    [qid |-> qid, kind |-> kind, required |-> required, choices |-> choices]

QUESTIONS ==
    <<Question("age", "number", TRUE, {}),
      Question("sex", "choice", TRUE, {<<"m", "a", "l", "e">>, <<"f", "e", "m", "a", "l", "e">>}),
      Question("height_cm", "number", TRUE, {}),
      Question("weight_kg", "number", TRUE, {}),
      Question("sleep_hours", "number", TRUE, {}),
      Question("training", "text", TRUE, {}),
      Question("nutrition", "text", TRUE, {}),
      Question("stress", "number", TRUE, {}),
      Question("smoking", "choice", TRUE,
               {<<"n", "o">>, <<"s", "o", "m", "e", "t", "i", "m", "e", "s">>, <<"y", "e", "s">>}),
      Question("alcohol", "text", TRUE, {}),
      Question("conditions", "text", FALSE, {}),
      Question("goal", "text", TRUE, {})>>

\* the checks of validate_answer on the stripped value v
AnswerError(q, v) ==
    IF q.required /\ v = <<>> THEN "This field is required"
    ELSE IF v = <<>> THEN "none"
    ELSE IF q.kind = "number" /\ PyFloat(replace(v, ",", ".")) = ValueError
    THEN "Please enter a number"
    ELSE IF q.kind = "choice" /\ q.choices # {} /\ v \notin q.choices
    THEN "Invalid choice"
    ELSE "none"

\* validate_answer: the stripped value, or the ValueError raised
validate_answer(q, value) ==
    [v |-> strip(value), error |-> AnswerError(q, strip(value))]

PLAN_FEATURES == [free |-> <<1>>, pro |-> <<4>>, premium |-> <<>>]

\* reports of the current month that count against the plan
UsedReports(rows) ==
    Cardinality({i \in 1..Len(rows) : rows[i].status \in {"queued", "generating", "sent"}})

\* can_generate_report: no limit, or fewer used than the plan allows
can_generate_report(plan, rows) ==
    IF PLAN_FEATURES[plan] = <<>> THEN TRUE
    ELSE UsedReports(rows) < PLAN_FEATURES[plan][1]

\* GET /assessment: nothing happens without a logged-in user
assessment_start ==
    /\ assessment.status = "none"
    /\ \E logged_in \in BOOLEAN :
          IF ~logged_in
          THEN /\ UNCHANGED assessment
               /\ response' = Page("login")
          ELSE /\ assessment' = [status |-> "in_progress", answers |-> EmptyDict]
               /\ response' = StepForm(1, "none")
    /\ request' = Request("assessment_start", TRUE, 0, <<>>)
    /\ UNCHANGED <<reports, user, queue>>
    /\ UNCHANGED <<answers, lang, pc, scores>>
    /\ UNCHANGED genVars
    /\ UNCHANGED <<pdfVars, hostVars>>

\* a handler that stores the trimmed value before it is validated
store_before_validation(step, value) ==
    IF assessment.status = "none" \/ step < 1 \/ step > Len(QUESTIONS)
    THEN /\ UNCHANGED assessment
         /\ response' = Page("not_found")
    ELSE /\ assessment' =
              [status  |-> IF step = Len(QUESTIONS)
                              /\ validate_answer(QUESTIONS[step], value).error = "none"
                           THEN "completed" ELSE assessment.status,
               answers |-> Put(assessment.answers, QUESTIONS[step].qid,
                               Str(validate_answer(QUESTIONS[step], value).v))]
         /\ response' = IF validate_answer(QUESTIONS[step], value).error # "none"
                        THEN StepForm(step, validate_answer(QUESTIONS[step], value).error)
                        ELSE IF step = Len(QUESTIONS) THEN Page("done")
                        ELSE StepForm(step + 1, "none")

\* the body of assessment_step_post once the user and the token are checked:
\* 404 for an unknown assessment or step, the form again for a rejected value
store_answer(step, value) ==
    IF assessment.status = "none" \/ step < 1 \/ step > Len(QUESTIONS)
    THEN /\ UNCHANGED assessment
         /\ response' = Page("not_found")
    ELSE IF validate_answer(QUESTIONS[step], value).error # "none"
    THEN /\ UNCHANGED assessment
         /\ response' = StepForm(step, validate_answer(QUESTIONS[step], value).error)
    ELSE /\ assessment' =
              [status  |-> IF step = Len(QUESTIONS) THEN "completed"
                           ELSE assessment.status,
               answers |-> Put(assessment.answers, QUESTIONS[step].qid,
                               Str(validate_answer(QUESTIONS[step], value).v))]
         /\ response' = IF step = Len(QUESTIONS) THEN Page("done")
                        ELSE StepForm(step + 1, "none")

\* what a user may type for the question of a step: nothing, blanks, a word,
\* or the padded value of the scenario (a decimal comma for sleep_hours)
FormValuesFor(q) ==
    {<<>>, <<" ">>}
    \cup (IF q.kind = "text" THEN {} ELSE {<<"x">>})
    \cup (IF q.qid = "conditions" THEN {<<"n", "o", "n", "e">>}
          ELSE IF q.qid = "sleep_hours" THEN {<<" ", "7", ",", "5">>}
          ELSE {<<" ">> \o ScenarioAnswers[q.qid].s \o <<" ">>})

FormValues(step) ==
    IF step \in 1..Len(QUESTIONS) THEN FormValuesFor(QUESTIONS[step]) ELSE {<<>>}

\* the steps a user opens by their address, whatever form is shown
OpenedSteps == {0, 5, Len(QUESTIONS), Len(QUESTIONS) + 1}

\* the steps a user submits: the form that is shown, or one opened by address
SubmittedSteps == OpenedSteps \cup (IF response.page = "step" THEN {response.step} ELSE {})

\* POST /assessment/{id}/{step}; authorized: a logged-in user and a valid token
assessment_step_post ==
    /\ \E authorized \in BOOLEAN, step \in SubmittedSteps :
          \E value \in FormValues(step) :
             /\ request' = Request("assessment_step_post", authorized, step, value)
             /\ IF ~authorized
                THEN /\ UNCHANGED assessment
                     /\ response' = Page("refused")
                ELSE store_answer(step, value)
    /\ UNCHANGED <<reports, user, queue>>
    /\ UNCHANGED <<answers, lang, pc, scores>>
    /\ UNCHANGED genVars
    /\ UNCHANGED <<pdfVars, hostVars>>

\* the languages a request can be in
RequestLangs == {"en", "uk"}

\* the body of start_report_generation once the user and the token are checked:
\* 400 unless the assessment is completed, the pricing page over the limit
create_report(current_lang) ==
    IF assessment.status # "completed"
    THEN /\ UNCHANGED <<reports, user, queue>>
         /\ response' = Page("bad_request")
    ELSE IF ~can_generate_report(user.plan, reports)
    THEN /\ UNCHANGED <<reports, user, queue>>
         /\ response' = Page("pricing")
    ELSE /\ user' = [user EXCEPT !.language = current_lang]
         /\ reports' = Append(reports, [assessment_id |-> 1, status |-> "queued"])
         /\ queue' = Append(queue, Len(reports) + 1)
         /\ response' = Page("dashboard")

\* POST /report/{assessment_id}/start
start_report_generation ==
    /\ Len(reports) < MaxReports
    /\ \E authorized \in BOOLEAN, current_lang \in RequestLangs :
          /\ request' = Request("start_report_generation", authorized, 0, <<>>)
          /\ IF ~authorized
             THEN /\ UNCHANGED <<reports, user, queue>>
                  /\ response' = Page("refused")
             ELSE create_report(current_lang)
    /\ UNCHANGED assessment
    /\ UNCHANGED <<answers, lang, pc, scores>>
    /\ UNCHANGED genVars
    /\ UNCHANGED <<pdfVars, hostVars>>

Plans == {"free", "pro", "premium"}

InitFlow ==
    /\ answers = EmptyDict
    /\ lang = "en"
    /\ api_key = FALSE
    /\ pc = "idle"
    /\ scores = <<>>
    /\ clock = 0
    /\ ctx = NoCtx
    /\ calls = <<>>
    /\ raised = {}
    /\ text = NoText
    /\ data = EmptyDict
    /\ ret = Null
    /\ path = "none"
    /\ assessment = NoAssessment
    /\ reports = <<>>
    /\ user \in {[plan |-> p, language |-> "en"] : p \in Plans}
    /\ queue = <<>>
    /\ story = <<>>
    /\ request = NoRequest
    /\ response = Page("none")
    /\ HostIdle

NextFlow ==
    \/ assessment_start
    \/ assessment_step_post
    \/ start_report_generation

SpecFlow == InitFlow /\ [][NextFlow]_vars

(***************************************************************************)
(* Properties of the questionnaire.                                        *)
(***************************************************************************)
RequiredQids == {QUESTIONS[i].qid : i \in {j \in 1..Len(QUESTIONS) : QUESTIONS[j].required}}

AllRequiredAnswered(ans) ==
    \A qid \in RequiredQids : qid \in DOMAIN ans /\ strip(ans[qid].s) # <<>>

\* C8: whenever a report has been created for the assessment, the stored
\* answers of the assessment hold a non-empty trimmed value for every
\* required question.
C8_ReportOnlyForCompleteAnswers ==
    reports # <<>> => AllRequiredAnswered(assessment.answers)

\* a report is queued for an assessment whose only answer is the goal
C8_ReportWithGoalOnly ==
    /\ Len(reports) = 1
    /\ reports[1].status = "queued"
    /\ DOMAIN assessment.answers = {"goal"}

(***************************************************************************)
(* The AnswerSets that are scored.                                         *)
(***************************************************************************)
WholeTexts == {NatDigits(w) : w \in 0..MaxWhole}

DecimalTexts(sep) ==
    {NatDigits(w) \o <<sep, DigitChars[d + 1]>> : w \in 0..MaxWhole, d \in 0..9}

OddNumberTexts ==
    {<<>>, <<" ">>, <<"x">>, <<"n", "a", "n">>, <<"i", "n", "f">>, <<"-", "I", "n", "f">>,
     <<"7", ".", "5", ".", "1">>, <<".">>, <<".", "5">>, <<"7", ".">>, <<"+", "7">>,
     <<"1", "0", "0", "0", "0", "0", "0">>, <<"7", " ", "h">>,
     <<"1", "e", "-", "1", "7", "0">>, <<"1", ",", "5", "e", "1">>, <<"1", "e">>,
     <<"1", "E", "4", "0", "0">>}

NumberTexts ==
    WholeTexts \cup DecimalTexts(".") \cup DecimalTexts(",")
    \cup {<<"-">> \o t : t \in WholeTexts}
    \cup {<<" ">> \o t \o <<"\n">> : t \in WholeTexts}
    \cup OddNumberTexts

TrainingTexts ==
    {<<>>, <<" ">>, <<"3", "x", " ", "g", "y", "m">>, <<"2", " ", "w", "a", "l", "k", "s">>,
     <<"Y", "o", "g", "a">>, <<"1", "2", " ", "k", "m">>, <<"2", "-", "3", "x">>}

NutritionTexts ==
    {<<>>, <<"b", "a", "l", "a", "n", "c", "e", "d">>,
     <<"H", "i", "g", "h", "-", "P", "r", "o", "t", "e", "i", "n">>,
     <<"k", "e", "t", "o">>,
     <<"p", "r", "o", "t", "e", "i", "n", " ", "k", "e", "t", "o">>,
     <<"f", "a", "s", "t", " ", "f", "o", "o", "d">>}

AlcoholTexts ==
    {<<>>, <<"r", "a", "r", "e", "l", "y">>, <<"D", "a", "i", "l", "y">>,
     <<"e", "v", "e", "r", "y", " ", "d", "a", "y">>}

SmokingTexts ==
    {<<>>, <<"n", "o">>, <<"s", "o", "m", "e", "t", "i", "m", "e", "s">>, <<"y", "e", "s">>,
     <<"Y", "E", "S">>, <<"y", "e", "s", " ">>}

ScoreAnswerSets ==
    GenAnswerSets
    \cup {[k \in {"sleep_hours"} |-> Str(t)] : t \in NumberTexts}
    \cup {[k \in {"stress"} |-> Str(t)] : t \in NumberTexts}
    \cup {[k \in {"sleep_hours", "stress"} |-> v] : v \in {Null, Num(7)}}
    \cup {[training |-> Str(a), nutrition |-> Str(b), alcohol |-> Str(c), smoking |-> Str(d)] :
            a \in TrainingTexts, b \in NutritionTexts, c \in AlcoholTexts, d \in SmokingTexts}

InitScore ==
    /\ answers \in ScoreAnswerSets
    /\ lang \in Langs
    /\ pc = "score"
    /\ scores = <<>>
    /\ api_key = FALSE
    /\ clock = 0
    /\ ctx = NoCtx
    /\ calls = <<>>
    /\ raised = {}
    /\ text = NoText
    /\ data = EmptyDict
    /\ ret = Null
    /\ path = "none"
    /\ assessment = NoAssessment
    /\ reports = <<>>
    /\ user = [plan |-> "free", language |-> "en"]
    /\ queue = <<>>
    /\ story = <<>>
    /\ request = NoRequest
    /\ response = Page("none")
    /\ HostIdle

compute_section_scores ==
    /\ pc = "score"
    /\ scores' = _compute_section_scores(answers, lang)
    /\ pc' = "scored"
    /\ UNCHANGED <<answers, lang>>
    /\ UNCHANGED genVars
    /\ UNCHANGED flowVars
    /\ UNCHANGED <<pdfVars, hostVars>>

NextScore == compute_section_scores

SpecScore == InitScore /\ [][NextScore]_vars

(***************************************************************************)
(* Properties of the section scores.                                       *)
(***************************************************************************)
Scored == pc = "scored"

SleepText(t) == [k \in {"sleep_hours"} |-> Str(t)]

\* C9: each of the five scores of any AnswerSet and language is an integer
\* in 0..100.
C9_ScoresWithinRange ==
    Scored => /\ Len(scores) = 5
              /\ \A i \in 1..5 : scores[i].score \in 0..100

\* a very large and a negative value have been scored
C9_ExtremeValueScored ==
    /\ Scored
    /\ \/ answers = SleepText(<<"1", "0", "0", "0", "0", "0", "0">>)
       \/ answers = [k \in {"stress"} |-> Str(<<"-", "1", "0">>)]
    /\ scores[1].score \in {40, 60}

\* the sleep score the buckets give to a parsed value, in units of 1/Scale
SleepBucket(h) ==
    IF h.k = "none" THEN 60
    ELSE IF h.k # "fin" THEN 40
    ELSE IF 7 * Scale <= h.n /\ h.n <= 9 * Scale THEN 90
    ELSE IF (6 * Scale <= h.n /\ h.n < 7 * Scale) \/ (9 * Scale < h.n /\ h.n <= 10 * Scale)
    THEN 75
    ELSE IF 5 * Scale <= h.n /\ h.n < 6 * Scale THEN 55
    ELSE 40

\* C10: the Sleep score is 90 on [7,9], 75 on [6,7) and (9,10], 55 on [5,6),
\* 40 for any other parsed value and 60 without a parsed value; 7.0 gives 90,
\* 6.9 gives 75, 5.9 gives 55 and 4.9 gives 40.
C10_SleepBuckets ==
    Scored =>
        /\ scores[1].score = SleepBucket(_to_float(Get(answers, "sleep_hours")))
        /\ answers = SleepText(<<"7", ".", "0">>) => scores[1].score = 90
        /\ answers = SleepText(<<"6", ".", "9">>) => scores[1].score = 75
        /\ answers = SleepText(<<"5", ".", "9">>) => scores[1].score = 55
        /\ answers = SleepText(<<"4", ".", "9">>) => scores[1].score = 40
        /\ answers = SleepText(<<>>) => scores[1].score = 60
        /\ "sleep_hours" \notin DOMAIN answers => scores[1].score = 60

\* 6.9 hours, written with a decimal comma, scored 75
C10_JustBelowSevenScored ==
    /\ Scored
    /\ answers = SleepText(<<"6", ",", "9">>)
    /\ scores[1].score = 75

\* the lower-cased text of an answer, "" when the answer is missing
Answer(key) == lower(PyStr(GetD(answers, key, Str(<<>>))))

Has(key, word) == Contains(Answer(key), word)

Max(a, b) == IF a > b THEN a ELSE b

NutritionBase ==
    IF Has("nutrition", <<"p", "r", "o", "t", "e", "i", "n">>)
       \/ Has("nutrition", <<"b", "a", "l", "a", "n", "c", "e", "d">>)
    THEN 82 ELSE 65

NutritionAfterKeto ==
    IF Has("nutrition", <<"k", "e", "t", "o">>) THEN Max(NutritionBase, 75) ELSE NutritionBase

NutritionAfterAlcohol ==
    IF Has("alcohol", <<"d", "a", "i", "l", "y">>)
       \/ Has("alcohol", <<"e", "v", "e", "r", "y", " ", "d", "a", "y">>)
    THEN Max(NutritionAfterKeto - 18, 0) ELSE NutritionAfterKeto

\* C11: the Nutrition score is 65, 82 with "protein" or "balanced" in the
\* (lower-cased) nutrition answer, then at least 75 with "keto", and only
\* then 18 less (not below 0) with "daily" or "every day" in the alcohol
\* answer; it is always one of 65, 75, 82, 47, 57, 64.
C11_NutritionRulesInOrder ==
    Scored => /\ scores[3].score = NutritionAfterAlcohol
              /\ scores[3].score \in {65, 75, 82, 47, 57, 64}

\* keto with daily alcohol scored 57: the floor of 75 came before the penalty
C11_KetoThenDailyAlcohol ==
    /\ Scored
    /\ Answer("nutrition") = <<"k", "e", "t", "o">>
    /\ Answer("alcohol") = <<"d", "a", "i", "l", "y">>
    /\ scores[3].score = 57

\* C12: the Risk score is 40 when the (lower-cased) smoking answer is "yes",
\* whatever the other answers are, 62 when it is "sometimes" and 80
\* otherwise, also for "no", an empty and a missing answer.
C12_RiskFromSmokingOnly ==
    Scored =>
        scores[5].score =
            IF Answer("smoking") = <<"y", "e", "s">> THEN 40
            ELSE IF Answer("smoking") = <<"s", "o", "m", "e", "t", "i", "m", "e", "s">> THEN 62
            ELSE 80

\* a smoker with a supportive diet and strong training scored 40 on Risk
C12_SmokerWithGoodHabits ==
    /\ Scored
    /\ Answer("smoking") = <<"y", "e", "s">>
    /\ scores[2].score = 85
    /\ scores[3].score = 82
    /\ scores[5].score = 40

\* C13: the Activity score is 85 when the training answer holds a digit 3, 4
\* or 5 (also next to a 2), else 72 when it holds a 2, else 62 when it is
\* not blank, else 60.
C13_ActivityFromDigits ==
    Scored =>
        scores[2].score =
            IF Has("training", <<"3">>) \/ Has("training", <<"4">>) \/ Has("training", <<"5">>)
            THEN 85
            ELSE IF Has("training", <<"2">>) THEN 72
            ELSE IF \E i \in 1..Len(Answer("training")) :
                        Answer("training")[i] \notin Whitespace
            THEN 62
            ELSE 60

\* a training answer with both 2 and 3 scored 85
C13_TwoAndThreeScored ==
    /\ Scored
    /\ Answer("training") = <<"2", "-", "3", "x">>
    /\ scores[2].score = 85

ParsedStress == _to_float(Get(answers, "stress"))

\* C14: the Recovery score is 88 for parsed stress s <= 3, 72 for 3 < s <= 6,
\* 55 for 6 < s <= 8, 42 for s > 8 and 65 without a parsed value.
C14_RecoveryBuckets ==
    Scored =>
        /\ ParsedStress.k = "none" => scores[4].score = 65
        /\ (ParsedStress.k = "inf" /\ ParsedStress.n < 0) => scores[4].score = 88
        /\ (ParsedStress.k = "inf" /\ ParsedStress.n > 0) => scores[4].score = 42
        /\ ParsedStress.k = "fin" =>
              scores[4].score =
                  IF ParsedStress.n <= 3 * Scale THEN 88
                  ELSE IF ParsedStress.n <= 6 * Scale THEN 72
                  ELSE IF ParsedStress.n <= 8 * Scale THEN 55
                  ELSE 42

\* stress 3,0 scored 88 and is the upper end of its bucket
C14_StressThreeScored ==
    /\ Scored
    /\ answers = [k \in {"stress"} |-> Str(<<"3", ",", "0">>)]
    /\ scores[4].score = 88

(***************************************************************************)
(* _assessment_context over AnswerSets that differ in height and weight.   *)
(***************************************************************************)
\* what answers may hold under height_cm and weight_kg; Null stands for a
\* missing key
HeightValues ==
    {Null, Num(180)}
    \cup {Str(t) : t \in {<<>>, <<"x">>, <<"0">>, <<"-", "1", "8", "0">>, <<"1", "8", "0">>,
                          <<" ", "1", "8", "0", ",", "0">>, <<"1", "6", "5">>,
                          <<"1", "e", "-", "1", "7", "0">>, <<"-", "1", "e", "-", "1", "7", "0">>,
                          <<"i", "n", "f">>, <<"n", "a", "n">>}}

WeightValues ==
    {Null, Num(81)}
    \cup {Str(t) : t \in {<<>>, <<"x">>, <<"0">>, <<"0", ".", "0">>, <<"-", "8", "1">>,
                          <<"8", "1">>, <<"8", "1", ",", "0">>, <<"9", "0">>, <<"7", "0">>,
                          <<"6", "2", ".", "5">>, <<"1", "e", "-", "1", "7", "0">>,
                          <<"i", "n", "f">>, <<"n", "a", "n">>}}

MetricAnswers(h, w) ==
    [k \in {x \in {"height_cm"} : h # Null} \cup {x \in {"weight_kg"} : w # Null}
        |-> IF k = "height_cm" THEN h ELSE w]

ContextAnswerSets == {MetricAnswers(h, w) : h \in HeightValues, w \in WeightValues}

InitContext ==
    /\ answers \in ContextAnswerSets
    /\ lang \in {"en", "uk"}
    /\ pc = "context"
    /\ scores = <<>>
    /\ api_key = FALSE
    /\ clock = 0
    /\ ctx = NoCtx
    /\ calls = <<>>
    /\ raised = {}
    /\ text = NoText
    /\ data = EmptyDict
    /\ ret = Null
    /\ path = "none"
    /\ assessment = NoAssessment
    /\ reports = <<>>
    /\ user = [plan |-> "free", language |-> "en"]
    /\ queue = <<>>
    /\ story = <<>>
    /\ request = NoRequest
    /\ response = Page("none")
    /\ HostIdle

\* ctx = _assessment_context(answers, lang), or the exception it raises
assessment_context ==
    /\ pc = "context"
    /\ IF ContextRaises(answers)
       THEN /\ raised' = raised \cup {"context"}
            /\ pc' = "raised"
            /\ UNCHANGED ctx
       ELSE /\ ctx' = _assessment_context(answers, lang, clock)
            /\ pc' = "context_done"
            /\ UNCHANGED raised
    /\ UNCHANGED <<answers, lang, scores, api_key, clock, calls, text, data, ret, path>>
    /\ UNCHANGED flowVars
    /\ UNCHANGED <<pdfVars, hostVars>>

NextContext == assessment_context

SpecContext == InitContext /\ [][NextContext]_vars

ParsedHeight == _to_float(Get(answers, "height_cm"))

ParsedWeight == _to_float(Get(answers, "weight_kg"))

StrictlyPositive(f) == FLt(Whole(0), f)

ContextBmi == ctx.derived_metrics.o["bmi"]

\* weight / (height / 100)^2 to one decimal, both in 1/Scale units
ExpectedBmi(h, w) == Fin(RoundHalfEven(w * 100 * 100 * 100, h * h))

BmiAsClaimed ==
    IF StrictlyPositive(ParsedHeight) /\ StrictlyPositive(ParsedWeight)
    THEN /\ ContextBmi # Null
         /\ (ParsedHeight.k = "fin" /\ ParsedWeight.k = "fin")
                => ContextBmi = NumF(ExpectedBmi(ParsedHeight.n, ParsedWeight.n))
         /\ (ParsedHeight = Whole(180) /\ ParsedWeight = Whole(81))
                => ContextBmi = NumF(Fin(250))
         /\ (ParsedHeight = Whole(180) /\ ParsedWeight = Whole(90))
                => ContextBmi = NumF(Fin(278))
    ELSE ContextBmi = Null

\* C15: _assessment_context returns derived_metrics whose bmi is present if
\* and only if height_cm and weight_kg both parse to strictly positive
\* numbers, and is then weight / (height / 100)^2 rounded to one decimal
\* (180 and 81 give 25.0, 180 and 90 give 27.8); otherwise bmi is null.
C15_BmiIffBothPositive ==
    pc # "context" => (pc = "context_done" /\ BmiAsClaimed)

\* height 1e-170 is strictly positive, and the context was not built: the
\* division by the squared height raised
C15_TinyHeightRaised ==
    /\ pc = "raised"
    /\ answers = TinyHeightAnswers
    /\ StrictlyPositive(ParsedHeight) /\ StrictlyPositive(ParsedWeight)
    /\ ctx = NoCtx

\* whenever the context is built, its bmi is as C15 says
BmiAsClaimedWhenReturned == pc = "context_done" => BmiAsClaimed

(***************************************************************************)
(* _to_float over the values an answer may hold.                           *)
(***************************************************************************)
FloatArguments ==
    {Null, Num(7), Obj(EmptyDict)} \cup {Str(t) : t \in NumberTexts}

InitFloat ==
    /\ answers \in {[k \in {"value"} |-> v] : v \in FloatArguments}
    /\ lang = "en"
    /\ pc = "to_float"
    /\ scores = <<>>
    /\ api_key = FALSE
    /\ clock = 0
    /\ ctx = NoCtx
    /\ calls = <<>>
    /\ raised = {}
    /\ text = NoText
    /\ data = EmptyDict
    /\ ret = Null
    /\ path = "none"
    /\ assessment = NoAssessment
    /\ reports = <<>>
    /\ user = [plan |-> "free", language |-> "en"]
    /\ queue = <<>>
    /\ story = <<>>
    /\ request = NoRequest
    /\ response = Page("none")
    /\ HostIdle

\* what the caller of a float-valued function gets
FloatOutcome(f) == IF f = ValueError THEN Raise("ValueError") ELSE NumF(f)

\* ret = _to_float(value)
to_float ==
    /\ pc = "to_float"
    /\ ret' = FloatOutcome(_to_float(answers["value"]))
    /\ pc' = "parsed"
    /\ UNCHANGED <<answers, lang, scores, api_key, clock, ctx, calls, raised, text, data, path>>
    /\ UNCHANGED flowVars
    /\ UNCHANGED <<pdfVars, hostVars>>

NextFloat == to_float

SpecFloat == InitFloat /\ [][NextFloat]_vars

\* the value with every comma, or every dot, of its text turned into sep
WithSeparator(v, sep) ==
    IF v.t = "str" THEN Str(replace(replace(v.s, ",", sep), ".", sep)) ELSE v

Unparsable ==
    {Str(t) : t \in {<<>>, <<" ">>, <<"x">>, <<".">>, <<"7", ".", "5", ".", "1">>,
                     <<"7", " ", "h">>, <<"1", "e">>}}
    \cup {Obj(EmptyDict)}

\* C16: _to_float raises for no value; it returns null for an absent or
\* unparsable value, and the number it returns for a text with a comma is
\* the number it returns for the same text with a dot.
C16_NeverRaisesCommaAsDot ==
    pc = "parsed" =>
        /\ ret.t \in {"null", "num"}
        /\ answers["value"] \in Unparsable \cup {Null} => ret = Null
        /\ ret = NumF(_to_float(WithSeparator(answers["value"], ".")))
        /\ NumF(_to_float(WithSeparator(answers["value"], ",")))
              = NumF(_to_float(WithSeparator(answers["value"], ".")))

\* 7,5 was read as seven and a half
C16_CommaRead ==
    /\ pc = "parsed"
    /\ answers["value"] = Str(<<"7", ",", "5">>)
    /\ ret = NumF(Fin(7 * Scale + 5))

(***************************************************************************)
(* The deterministic strategy invoked twice on one AnswerSet and language. *)
(***************************************************************************)
TwiceAnswerSets ==
    GenAnswerSets \cup {[k \in {"sleep_hours"} |-> Str(t)] : t \in OddNumberTexts}

InitTwice ==
    /\ answers \in TwiceAnswerSets
    /\ lang \in Langs
    /\ pc = "first"
    /\ scores = <<>>
    /\ api_key = FALSE
    /\ clock = 0
    /\ ctx = NoCtx
    /\ calls = <<>>
    /\ raised = {}
    /\ text = NoText
    /\ data = EmptyDict
    /\ ret = Null
    /\ path = "none"
    /\ assessment = NoAssessment
    /\ reports = <<>>
    /\ user = [plan |-> "free", language |-> "en"]
    /\ queue = <<>>
    /\ story = <<>>
    /\ request = NoRequest
    /\ response = Page("none")
    /\ HostIdle

\* ret = _mock_report(answers, lang) and scores = _compute_section_scores(
\* answers, lang), at some time not before the clock
deterministic_strategy ==
    /\ pc \in {"first", "second"}
    /\ \E now \in clock..MaxClock :
          /\ clock' = now
          /\ ret' = MockOutcome(answers, lang, now)
    /\ scores' = _compute_section_scores(answers, lang)
    /\ pc' = IF pc = "first" THEN "second" ELSE "twice"
    /\ UNCHANGED <<answers, lang, api_key, ctx, calls, raised, text, data, path>>
    /\ UNCHANGED flowVars
    /\ UNCHANGED <<pdfVars, hostVars>>

NextTwice == deterministic_strategy

SpecTwice == InitTwice /\ [][NextTwice]_vars

\* C17: the second invocation of _mock_report and _compute_section_scores
\* on the same AnswerSet and language yields the section scores and notes
\* of the first, and a document equal to the first in every field except
\* generated_at_utc (or the exception the first raised).
C17_SecondInvocationAgrees ==
    [][pc = "second" =>
          /\ scores' = scores
          /\ ret.t = "obj" => SameApartFromTime(ret', ret)
          /\ ret.t = "raise" => ret' = ret]_vars

\* two reports of one AnswerSet generated at different times
C17_GeneratedLater ==
    /\ pc = "twice"
    /\ answers = ScenarioAnswers
    /\ clock > 0
    /\ ret.o["generated_at_utc"] = isoformat(clock)
    /\ ret # MockOutcome(answers, lang, 0)
    /\ Len(scores) = 5

\* C18: without a provider credential generate_report_json calls the
\* provider at no point and returns what _mock_report yields for the
\* AnswerSet and language at the time of the return.
C18_NoCredentialNoCall ==
    ~api_key =>
        /\ calls = <<>>
        /\ raised = {}
        /\ Done => /\ path = "no_key"
                   /\ ret = MockOutcome(answers, lang, clock)
                   /\ ret.t = "obj" => SameApartFromTime(ret, DeterministicReport)

\* a Ukrainian report was returned without a credential and without a call
C18_ReturnedWithoutCredential ==
    /\ Done
    /\ ~api_key
    /\ answers = ScenarioAnswers
    /\ lang = "uk"
    /\ calls = <<>>
    /\ ret.t = "obj"
    /\ ret.o["language"] = Str(<<"uk">>)

(***************************************************************************)
(* The document renderer: _t and build_pdf.  The story is the sequence of  *)
(* flowables handed to doc.build; spacers and table styles are left out.   *)
(* A flowable is tagged with the section of the report it belongs to.      *)
(***************************************************************************)
EnglishLabels ==
    [cover_title         |-> "BioAge Reset Protocol",
     cover_subtitle      |-> "Personalized 90-Day Optimization Report",
     cover_disclaimer    |-> "Educational report. Not medical advice.",
     generated           |-> "Generated (UTC)",
     client_profile      |-> "Client Profile",
     goal                |-> "Goal",
     metric              |-> "Metric",
     value               |-> "Value",
     executive_summary   |-> "Executive Summary",
     priority_actions    |-> "Priority Actions",
     section_scores      |-> "Section Scores",
     section             |-> "Section",
     score_100           |-> "Score (100)",
     notes               |-> "Notes",
     summary             |-> "Summary",
     bioage_estimate     |-> "BioAge estimate",
     key_focus           |-> "Key focus",
     plan_weekly         |-> "90-day plan (weekly)",
     week                |-> "Week",
     focus               |-> "Focus",
     actions             |-> "Actions",
     phases              |-> "90-Day Phases",
     objective           |-> "Objective",
     habits              |-> "Habits",
     training            |-> "Training",
     nutrition           |-> "Nutrition",
     recovery            |-> "Recovery",
     safety_notes        |-> "Safety Notes",
     next_steps          |-> "Next Steps",
     assessment_snapshot |-> "Assessment Snapshot"]

\* The Ukrainian and Russian entries are written as the language and the
\* English entry they translate; entries that are the same string in the
\* source are the same text here.
Translation(lg, key) ==
    IF lg = "en" \/ key = "cover_title" THEN <<EnglishLabels[key]>>
    ELSE IF key \in {"metric", "focus"} THEN <<"uk", "ru", ":", EnglishLabels[key]>>
    ELSE IF lg = "ru" /\ key = "objective" THEN <<"ru", ":", EnglishLabels["goal"]>>
    ELSE <<lg, ":", EnglishLabels[key]>>

_L10N == [lg \in {"en", "uk", "ru"} |-> [key \in DOMAIN EnglishLabels |-> Translation(lg, key)]]

\* base = tables.get(lg, tables["en"]); base.get(key, tables["en"].get(key, key))
Lookup(tables, base, key) ==
    IF key \in DOMAIN base THEN base[key]
    ELSE IF key \in DOMAIN tables["en"] THEN tables["en"][key]
    ELSE <<key>>

\* a lookup that knows no fallback to English
t_without_fallback(lg, key) ==
    IF lg \in DOMAIN _L10N /\ key \in DOMAIN _L10N[lg] THEN _L10N[lg][key] ELSE <<key>>

_t(lg, key) == Lookup(_L10N, IF lg \in DOMAIN _L10N THEN _L10N[lg] ELSE _L10N["en"], key)

\* bool(v) of a JSON value
PyTruthy(v) ==
    CASE v.t = "null" -> FALSE
      [] v.t = "str"  -> v.s # <<>>
      [] v.t = "num"  -> v.n # 0
      [] v.t = "list" -> v.l # <<>>
      [] OTHER        -> DOMAIN v.o # {}

\* d.get(key, default) or default
GetOr(d, key, default) == IF PyTruthy(Get(d, key)) THEN d[key] ELSE default

\* the stripped, non-empty str() of the items
RECURSIVE StrippedParts(_)
StrippedParts(items) ==
    IF items = <<>> THEN <<>>
    ELSE (IF strip(PyStr(Head(items))) # <<>> THEN <<strip(PyStr(Head(items)))>> ELSE <<>>)
         \o StrippedParts(Tail(items))

\* sep.join(prefix + p for p in parts)
RECURSIVE JoinParts(_, _, _)
JoinParts(parts, prefix, sep) ==
    IF parts = <<>> THEN <<>>
    ELSE prefix \o Head(parts)
         \o (IF Len(parts) > 1 THEN sep ELSE <<>>)
         \o JoinParts(Tail(parts), prefix, sep)

BulletsOrDash(parts) ==
    IF parts = <<>> THEN <<"-">> ELSE JoinParts(parts, <<"- ">>, <<"<br/>">>)

_safe_lines(values) ==
    IF ~PyTruthy(values) THEN <<"-">> ELSE BulletsOrDash(StrippedParts(values.l))

Flowable(sec, el, label, head, body) ==
    [sec |-> sec, el |-> el, label |-> label, head |-> head, body |-> body]

Paragraph(sec, label, body) == Flowable(sec, "paragraph", label, <<>>, body)

section_header(sec, label) == Flowable(sec, "header", label, <<>>, <<>>)

\* title and generated of build_pdf
PdfTitle(doc, lg) ==
    IF PyTruthy(Get(doc, "title")) THEN PyStr(doc["title"]) ELSE _t(lg, "cover_title")

PdfGenerated(doc) ==
    IF PyTruthy(Get(doc, "generated_at_utc")) THEN PyStr(doc["generated_at_utc"]) ELSE <<>>

GeneratedLine(sec, doc, lg) ==
    IF PdfGenerated(doc) # <<>>
    THEN <<Paragraph(sec, _t(lg, "generated"), PdfGenerated(doc))>>
    ELSE <<>>

CoverPage(doc, lg) ==
    <<Flowable("cover", "table", PdfTitle(doc, lg), <<>>, <<_t(lg, "cover_subtitle")>>)>>
    \o GeneratedLine("cover", doc, lg)
    \o <<Paragraph("cover", _t(lg, "cover_disclaimer"), <<>>),
         Flowable("cover", "pagebreak", <<>>, <<>>, <<>>)>>

PdfDisclaimer(doc) == strip(PyStr(GetD(doc, "disclaimer", Str(<<>>))))

TitleBlock(doc, lg) ==
    <<Flowable("title", "heading", PdfTitle(doc, lg), <<>>, <<>>)>>
    \o GeneratedLine("title", doc, lg)
    \o (IF PdfDisclaimer(doc) # <<>>
        THEN <<Paragraph("title", <<>>, PdfDisclaimer(doc))>> ELSE <<>>)

MetricKeys == <<"age", "height_cm", "weight_kg", "bmi", "sleep_hours", "stress_1_10">>

MetricShown(v) == v # Null /\ ~(v.t = "str" /\ strip(v.s) = <<>>)

RECURSIVE MetricRows(_, _)
MetricRows(metrics, keys) ==
    IF keys = <<>> THEN <<>>
    ELSE (IF MetricShown(Get(metrics, Head(keys)))
          THEN <<[key |-> Head(keys), value |-> metrics[Head(keys)]]>> ELSE <<>>)
         \o MetricRows(metrics, Tail(keys))

ProfileOf(doc) == GetOr(doc, "profile", Obj(EmptyDict)).o

ProfileGoal(doc) == strip(PyStr(GetD(ProfileOf(doc), "goal", Str(<<>>))))

ProfileMetrics(doc) == GetOr(ProfileOf(doc), "derived_metrics", Obj(EmptyDict)).o

ProfileBlock(doc, lg) ==
    <<section_header("profile", _t(lg, "client_profile"))>>
    \o (IF ProfileGoal(doc) # <<>>
        THEN <<Paragraph("profile", _t(lg, "goal"), ProfileGoal(doc))>> ELSE <<>>)
    \o (IF MetricRows(ProfileMetrics(doc), MetricKeys) # <<>>
        THEN <<Flowable("profile", "table", <<>>, <<_t(lg, "metric"), _t(lg, "value")>>,
                        MetricRows(ProfileMetrics(doc), MetricKeys))>>
        ELSE <<>>)

\* a headed block of bullet lines, left out when the list is empty
LinesBlock(sec, doc, lg) ==
    IF PyTruthy(Get(doc, sec))
    THEN <<section_header(sec, _t(lg, sec)), Paragraph(sec, <<>>, _safe_lines(doc[sec]))>>
    ELSE <<>>

ScoreBlock(doc, lg) ==
    <<section_header("section_scores", _t(lg, "section_scores")),
      Flowable("section_scores", "table", <<>>,
               <<_t(lg, "section"), _t(lg, "score_100"), _t(lg, "notes")>>,
               _compute_section_scores(ReportAnswers(Obj(doc)).o, lg))>>

SummaryOf(doc) == GetOr(doc, "summary", Obj(EmptyDict)).o

SummaryBlock(doc, lg) ==
    <<section_header("summary", _t(lg, "summary")),
      Paragraph("summary", _t(lg, "bioage_estimate"),
                <<GetD(SummaryOf(doc), "bioage_estimate", Str(<<>>))>>)>>
    \o (IF PyTruthy(Get(SummaryOf(doc), "key_focus"))
        THEN <<Paragraph("summary", _t(lg, "key_focus"), SummaryOf(doc)["key_focus"].l)>>
        ELSE <<>>)

\* plan actions flattened the way the phase lists are
PlanActionsAsSafeLines(item) == _safe_lines(Get(item, "actions"))

\* "\n".join(item.get("actions", []) or [])
PlanActions(item) ==
    IF PyTruthy(Get(item, "actions"))
    THEN JoinParts([i \in 1..Len(item["actions"].l) |-> item["actions"].l[i].s], <<>>, <<"\n">>)
    ELSE <<>>

PlanRow(item) ==
    [week    |-> PyStr(GetD(item, "week", Str(<<>>))),
     focus   |-> PyStr(GetD(item, "focus", Str(<<>>))),
     actions |-> PlanActions(item)]

PlanBlock(doc, lg) ==
    <<section_header("plan_weekly", _t(lg, "plan_weekly")),
      Flowable("plan_weekly", "table", <<>>,
               <<_t(lg, "week"), _t(lg, "focus"), _t(lg, "actions")>>,
               [i \in 1..Len(GetOr(doc, "plan_90_days", List(<<>>)).l)
                   |-> PlanRow(doc["plan_90_days"].l[i].o)])>>

PhaseObjective(phase) == strip(PyStr(GetD(phase, "objective", Str(<<>>))))

PhaseFlowables(phase, lg) ==
    <<Flowable("phases", "table", PyStr(GetD(phase, "name", Str(<<>>))), <<>>, <<>>)>>
    \o (IF PhaseObjective(phase) # <<>>
        THEN <<Paragraph("phases", _t(lg, "objective"), PhaseObjective(phase))>> ELSE <<>>)
    \o <<Paragraph("phases", _t(lg, "habits"), _safe_lines(Get(phase, "habits"))),
         Paragraph("phases", _t(lg, "training"), _safe_lines(Get(phase, "training"))),
         Paragraph("phases", _t(lg, "nutrition"), _safe_lines(Get(phase, "nutrition"))),
         Paragraph("phases", _t(lg, "recovery"), _safe_lines(Get(phase, "recovery")))>>

RECURSIVE EachPhase(_, _)
EachPhase(phases, lg) ==
    IF phases = <<>> THEN <<>>
    ELSE PhaseFlowables(Head(phases).o, lg) \o EachPhase(Tail(phases), lg)

PhasesBlock(doc, lg) ==
    IF PyTruthy(Get(doc, "phases"))
    THEN <<section_header("phases", _t(lg, "phases"))>> \o EachPhase(doc["phases"].l, lg)
    ELSE <<>>

RECURSIVE NonBlank(_)
NonBlank(items) ==
    IF items = <<>> THEN <<>>
    ELSE (IF strip(PyStr(Head(items))) # <<>> THEN <<PyStr(Head(items))>> ELSE <<>>)
         \o NonBlank(Tail(items))

\* [str(x) for x in [*risk_flags, *warnings] if str(x).strip()]
combined_risks(doc) ==
    NonBlank(GetOr(doc, "risk_flags", List(<<>>)).l \o GetOr(doc, "warnings", List(<<>>)).l)

DashLines(sec, lines) == [i \in 1..Len(lines) |-> Paragraph(sec, <<>>, <<"- ">> \o lines[i])]

\* safety notes headed whenever a risk flag or warning is listed, blank or not
SafetyBlockAnyEntry(doc, lg) ==
    IF GetOr(doc, "risk_flags", List(<<>>)).l \o GetOr(doc, "warnings", List(<<>>)).l # <<>>
    THEN <<section_header("safety_notes", _t(lg, "safety_notes"))>>
         \o DashLines("safety_notes", combined_risks(doc))
    ELSE <<>>

SafetyBlock(doc, lg) ==
    IF combined_risks(doc) # <<>>
    THEN <<section_header("safety_notes", _t(lg, "safety_notes"))>>
         \o DashLines("safety_notes", combined_risks(doc))
    ELSE <<>>

NextStepsBlock(doc, lg) ==
    IF PyTruthy(Get(doc, "next_steps"))
    THEN <<section_header("next_steps", _t(lg, "next_steps"))>>
         \o DashLines("next_steps", [i \in 1..Len(doc["next_steps"].l) |-> PyStr(doc["next_steps"].l[i])])
    ELSE <<>>

\* q.label(lang) of the question with this qid, or the key itself
AnswerLabel(k, lg) ==
    IF \E i \in 1..Len(QUESTIONS) : QUESTIONS[i].qid = k
    THEN <<_local(lg, "en", "uk", "ru"), ":", k>>
    ELSE <<k>>

\* one line per answer; a dict keeps its insertion order, of which the
\* model keeps no record, so the lines come in some fixed order
RECURSIVE AnswerLines(_, _, _)
AnswerLines(d, keys, lg) ==
    IF keys = {} THEN <<>>
    ELSE <<Paragraph("assessment_snapshot",
                     AnswerLabel(CHOOSE k \in keys : TRUE, lg),
                     <<d[CHOOSE k \in keys : TRUE]>>)>>
         \o AnswerLines(d, keys \ {CHOOSE k \in keys : TRUE}, lg)

SnapshotBlock(doc, lg) ==
    IF ReportAnswers(Obj(doc)) # Obj(EmptyDict)
    THEN <<section_header("assessment_snapshot", _t(lg, "assessment_snapshot"))>>
         \o AnswerLines(ReportAnswers(Obj(doc)).o, DOMAIN ReportAnswers(Obj(doc)).o, lg)
    ELSE <<>>

\* a renderer that puts the next steps before the safety notes
build_pdf_steps_first(doc, lg) ==
    CoverPage(doc, lg) \o TitleBlock(doc, lg) \o ProfileBlock(doc, lg)
    \o LinesBlock("executive_summary", doc, lg) \o LinesBlock("priority_actions", doc, lg)
    \o ScoreBlock(doc, lg) \o SummaryBlock(doc, lg) \o PlanBlock(doc, lg)
    \o PhasesBlock(doc, lg) \o NextStepsBlock(doc, lg) \o SafetyBlock(doc, lg)
    \o SnapshotBlock(doc, lg)

\* the story of build_pdf(report_json, lang)
build_pdf(doc, lg) ==
    CoverPage(doc, lg) \o TitleBlock(doc, lg) \o ProfileBlock(doc, lg)
    \o LinesBlock("executive_summary", doc, lg) \o LinesBlock("priority_actions", doc, lg)
    \o ScoreBlock(doc, lg) \o SummaryBlock(doc, lg) \o PlanBlock(doc, lg)
    \o PhasesBlock(doc, lg) \o SafetyBlock(doc, lg) \o NextStepsBlock(doc, lg)
    \o SnapshotBlock(doc, lg)

(***************************************************************************)
(* build_pdf over report documents: the deterministic report, with some of *)
(* its optional parts missing or empty, and with provider warnings.        *)
(***************************************************************************)
OptionalKeys ==
    {"executive_summary", "priority_actions", "phases", "risk_flags", "next_steps", "answers"}

Dropped(d, keys) == [k \in (DOMAIN d) \ keys |-> d[k]]

Emptied(d, keys) ==
    [k \in DOMAIN d |-> IF k \notin keys THEN d[k]
                        ELSE IF k = "answers" THEN Obj(EmptyDict) ELSE List(<<>>)]

WithWarnings(d) ==
    Put(d, "warnings", List(<<Str(<<"provider text">>), Str(<<" ">>)>>))

WithBlankWarnings(d) ==
    Put(d, "warnings", List(<<Str(<<" ">>), Str(<<>>)>>))

\* a report whose lists are sparse: blank and padded entries, a week without
\* actions, a phase with an empty, a blank and a missing list
SparseDocument(d) ==
    [d EXCEPT
        !["executive_summary"] = List(<<Str(<<" ">>), Str(<<>>)>>),
        !["priority_actions"] = List(<<Str(<<" ", "Walk daily", " ">>), Str(<<" ">>),
                                       Str(<<"Sleep 8 hours">>)>>),
        !["plan_90_days"] = List(<<Week(1, "baseline", <<>>),
                                   Week(2, "consistency", <<"Strength 3x", "Hydration">>)>>),
        !["phases"] = List(
            <<Obj([name      |-> Str(<<"Days 1-30: Foundation">>),
                   objective |-> Str(<<>>),
                   habits    |-> List(<<>>),
                   training  |-> List(<<Str(<<" ">>)>>),
                   recovery  |-> List(<<Str(<<"\t", "Evening wind-down">>), Str(<<>>),
                                        Str(<<"Recovery audit">>)>>)])>>)]

BaseDocuments ==
    {_mock_report(ScenarioAnswers, "en", 0), _mock_report(CyrillicGoalAnswers, "uk", 0),
     SparseDocument(_mock_report(ScenarioAnswers, "en", 0))}

ReportDocuments ==
    UNION {{Dropped(d, keys), Emptied(d, keys), WithWarnings(Emptied(d, keys)),
            WithBlankWarnings(Emptied(d, keys))} :
              d \in BaseDocuments, keys \in SUBSET OptionalKeys}

InitPdf ==
    /\ ret \in {Obj(d) : d \in ReportDocuments}
    /\ lang \in Langs
    /\ answers = EmptyDict
    /\ pc = "render"
    /\ scores = <<>>
    /\ api_key = FALSE
    /\ clock = 0
    /\ ctx = NoCtx
    /\ calls = <<>>
    /\ raised = {}
    /\ text = NoText
    /\ data = EmptyDict
    /\ path = "none"
    /\ assessment = NoAssessment
    /\ reports = <<>>
    /\ user = [plan |-> "free", language |-> "en"]
    /\ queue = <<>>
    /\ story = <<>>
    /\ request = NoRequest
    /\ response = Page("none")
    /\ HostIdle

\* build_pdf(report_json, lang): the story handed to doc.build, and the
\* section scores computed on the way
render_pdf ==
    /\ pc = "render"
    /\ story' = build_pdf(ret.o, lang)
    /\ scores' = _compute_section_scores(ReportAnswers(ret).o, lang)
    /\ pc' = "rendered"
    /\ UNCHANGED <<answers, lang, api_key, clock, ctx, calls, raised, text, data, ret, path>>
    /\ UNCHANGED flowVars
    /\ UNCHANGED hostVars

NextPdf == render_pdf

SpecPdf == InitPdf /\ [][NextPdf]_vars

Rendered == pc = "rendered"

LabelKeys == (DOMAIN EnglishLabels) \cup {"unknown_key"}

\* a language table from which one key is missing
Without(table, key) == [k \in (DOMAIN table) \ {key} |-> table[k]]

SupportedLangs == {"en", "uk", "ru"}

\* C19: for a language code outside en, uk, ru the section labels and notes
\* of _compute_section_scores and every label of _t (so every label of the
\* story) are those of en; for uk and ru a key that the language's table
\* lacks is looked up in the English table.
C19_UnsupportedLanguageIsEnglish ==
    Rendered =>
        /\ lang \notin SupportedLangs =>
              /\ scores = _compute_section_scores(ReportAnswers(ret).o, "en")
              /\ story = build_pdf(ret.o, "en")
              /\ \A key \in LabelKeys : _t(lang, key) = _t("en", key)
        /\ lang \in {"uk", "ru"} =>
              \A key \in LabelKeys :
                  IF key \in DOMAIN _L10N[lang]
                  THEN /\ _t(lang, key) = _L10N[lang][key]
                       /\ Lookup(_L10N, Without(_L10N[lang], key), key) = _L10N["en"][key]
                  ELSE _t(lang, key) = _t("en", key)

\* a Ukrainian report rendered for the language code de carries the English
\* headers and section labels
C19_GermanRenderedInEnglish ==
    /\ Rendered
    /\ lang = "de"
    /\ ret = Obj(_mock_report(CyrillicGoalAnswers, "uk", 0))
    /\ scores[1].section = SectionLabels("en")[1]
    /\ scores[1].section # SectionLabels("uk")[1]
    /\ \E i \in 1..Len(story) : story[i] = section_header("phases", <<"90-Day Phases">>)

SectionOrder ==
    <<"cover", "title", "profile", "executive_summary", "priority_actions",
      "section_scores", "summary", "plan_weekly", "phases", "safety_notes",
      "next_steps", "assessment_snapshot">>

Place(sec) == CHOOSE i \in 1..Len(SectionOrder) : SectionOrder[i] = sec

ScoreTables == {i \in 1..Len(story) : story[i].sec = "section_scores" /\ story[i].el = "table"}

\* C20: the flowables of the story come section by section in the order
\* cover and title/disclaimer, client profile, executive summary, priority
\* actions, section scores, summary, weekly plan, phases, safety notes, next
\* steps, answer snapshot: none precedes a flowable of an earlier section;
\* and there is one section-score table, of five data rows.
C20_SectionsInFixedOrder ==
    Rendered =>
        /\ \A i \in 1..Len(story) : \E p \in 1..Len(SectionOrder) : SectionOrder[p] = story[i].sec
        /\ \A i, j \in 1..Len(story) : i < j => Place(story[i].sec) <= Place(story[j].sec)
        /\ Cardinality(ScoreTables) = 1
        /\ \A i \in ScoreTables : Len(story[i].body) = 5

\* a story that holds every section, safety notes and next steps among them
C20_EverySectionRendered ==
    /\ Rendered
    /\ {story[i].sec : i \in 1..Len(story)} = {SectionOrder[p] : p \in 1..Len(SectionOrder)}
    /\ "warnings" \in DOMAIN ret.o

\* the list a report document holds under a key, empty when it holds none
ListAt(key) == IF Get(ret.o, key).t = "list" THEN ret.o[key].l ELSE <<>>

Emitted(sec) == \E i \in 1..Len(story) : story[i].sec = sec

RisksThenWarnings == ListAt("risk_flags") \o ListAt("warnings")

\* C21: build_pdf emits the phases section iff phases is non-empty, the
\* next-steps section iff next_steps is non-empty, the safety-notes section
\* iff risk_flags followed by warnings holds at least one non-blank entry,
\* and the answer-snapshot section iff answers is non-empty.
C21_SectionsIffNonEmpty ==
    Rendered =>
        /\ Emitted("phases") <=> ListAt("phases") # <<>>
        /\ Emitted("next_steps") <=> ListAt("next_steps") # <<>>
        /\ Emitted("safety_notes") <=>
               \E i \in 1..Len(RisksThenWarnings) : strip(PyStr(RisksThenWarnings[i])) # <<>>
        /\ Emitted("assessment_snapshot") <=>
               (Get(ret.o, "answers").t = "obj" /\ DOMAIN ret.o["answers"].o # {})

\* a document with no phases and no risk flags whose warnings are all blank
\* is rendered without phases and safety notes, but with its answer snapshot
C21_BlankWarningsOnly ==
    /\ Rendered
    /\ ListAt("phases") = <<>>
    /\ ListAt("risk_flags") = <<>>
    /\ ListAt("warnings") # <<>>
    /\ ~Emitted("safety_notes")
    /\ ~Emitted("phases")
    /\ Emitted("next_steps")
    /\ Emitted("assessment_snapshot")

\* the stripped text of the entries of a list that are not blank
RECURSIVE Kept(_)
Kept(items) ==
    IF items = <<>> THEN <<>>
    ELSE IF strip(PyStr(Head(items))) = <<>> THEN Kept(Tail(items))
    ELSE <<strip(PyStr(Head(items)))>> \o Kept(Tail(items))

\* one "- " line per entry, a line break between two lines
RECURSIVE Lines(_, _, _)
Lines(parts, bullet, break) ==
    IF parts = <<>> THEN <<>>
    ELSE IF Len(parts) = 1 THEN bullet \o parts[1]
    ELSE bullet \o Head(parts) \o break \o Lines(Tail(parts), bullet, break)

BulletLinesOrDash(items) ==
    IF Kept(items) = <<>> THEN <<"-">> ELSE Lines(Kept(items), <<"- ">>, <<"<br/>">>)

\* the paragraphs of a section that carry a list
ListParagraphs(sec) ==
    SelectSeq(story, LAMBDA f : f.sec = sec /\ f.el = "paragraph"
                                /\ f.label # _t(lang, "objective"))

PlanRows == SelectSeq(story, LAMBDA f : f.sec = "plan_weekly" /\ f.el = "table")[1].body

PhaseLists == <<"habits", "training", "nutrition", "recovery">>

\* the list a phase or a week holds under a key, empty when it holds none
ItemsOf(entry, key) == IF Get(entry.o, key).t = "list" THEN entry.o[key].l ELSE <<>>

\* each phase's four lists are rendered, in order, as bullet lines or a dash
PhaseListsAsBullets ==
    /\ Len(ListParagraphs("phases")) = 4 * Len(ListAt("phases"))
    /\ \A k \in 1..Len(ListAt("phases")) : \A j \in 1..4 :
          ListParagraphs("phases")[4 * (k - 1) + j] =
              Paragraph("phases", _t(lang, PhaseLists[j]),
                        BulletLinesOrDash(ItemsOf(ListAt("phases")[k], PhaseLists[j])))

\* C22 as stated: the executive summary, the priority actions, each week's
\* plan actions and each phase's habits, training, nutrition and recovery
\* lists are rendered as one bullet line per item joined by a line break,
\* and as a single dash when the list is empty.
C22_ListsAsBulletsOrDash ==
    Rendered =>
        /\ \A sec \in {"executive_summary", "priority_actions"} :
              ListParagraphs(sec) = <<Paragraph(sec, <<>>, BulletLinesOrDash(ListAt(sec)))>>
        /\ Len(PlanRows) = Len(ListAt("plan_90_days"))
        /\ \A i \in 1..Len(PlanRows) :
              PlanRows[i].actions = BulletLinesOrDash(ItemsOf(ListAt("plan_90_days")[i], "actions"))
        /\ PhaseListsAsBullets

\* C22 amended: a non-empty executive summary or priority-actions list and
\* each phase's four lists are rendered as one "- " line per non-blank item,
\* stripped, joined by <br/>, and as a single dash when no item is left; an
\* empty executive summary or priority-actions list renders no section; a
\* week's plan actions are joined by a newline without bullets, and an empty
\* action list renders an empty cell.
C22_BulletsWhereSafeLines ==
    Rendered =>
        /\ \A sec \in {"executive_summary", "priority_actions"} :
              IF ListAt(sec) = <<>> THEN ~Emitted(sec)
              ELSE ListParagraphs(sec) = <<Paragraph(sec, <<>>, BulletLinesOrDash(ListAt(sec)))>>
        /\ Len(PlanRows) = Len(ListAt("plan_90_days"))
        /\ \A i \in 1..Len(PlanRows) :
              PlanRows[i].actions =
                  Lines([j \in 1..Len(ItemsOf(ListAt("plan_90_days")[i], "actions")) |->
                            ItemsOf(ListAt("plan_90_days")[i], "actions")[j].s],
                        <<>>, <<"\n">>)
        /\ PhaseListsAsBullets

\* the sparse report rendered: a dash for the all-blank executive summary
\* and for the empty, blank and missing phase lists, bullets for the others,
\* an empty cell for the week without actions
C22_SparseListsRendered ==
    /\ Rendered
    /\ ListParagraphs("executive_summary") = <<Paragraph("executive_summary", <<>>, <<"-">>)>>
    /\ ListParagraphs("priority_actions") =
          <<Paragraph("priority_actions", <<>>,
                      <<"- ", "Walk daily", "<br/>", "- ", "Sleep 8 hours">>)>>
    /\ Len(ListParagraphs("phases")) = 4
    /\ \A j \in 1..3 : ListParagraphs("phases")[j].body = <<"-">>
    /\ ListParagraphs("phases")[4].body =
          <<"- ", "Evening wind-down", "<br/>", "- ", "Recovery audit">>
    /\ PlanRows[1].actions = <<>>
    /\ PlanRows[2].actions = <<"Strength 3x", "\n", "Hydration">>

(***************************************************************************)
(* Font selection: _register_unicode_fonts probes the font directories of  *)
(* the host for a regular and a bold file and registers the pair found.    *)
(* A file name is found at one place of the host at most; the files found  *)
(* are fonts that pdfmetrics can load.                                     *)
(***************************************************************************)
\* no report is being generated, rendered or requested
CoreIdle ==
    /\ answers = EmptyDict
    /\ lang = "en"
    /\ scores = <<>>
    /\ api_key = FALSE
    /\ clock = 0
    /\ ctx = NoCtx
    /\ calls = <<>>
    /\ raised = {}
    /\ text = NoText
    /\ data = EmptyDict
    /\ ret = Null
    /\ path = "none"
    /\ assessment = NoAssessment
    /\ reports = <<>>
    /\ user = [plan |-> "free", language |-> "en"]
    /\ queue = <<>>
    /\ request = NoRequest
    /\ response = Page("none")
    /\ story = <<>>

coreVars == <<answers, lang, scores, genVars, flowVars, pdfVars>>

preferred_pairs ==
    <<<<"DejaVuSans.ttf", "DejaVuSans-Bold.ttf">>,
      <<"NotoSans-Regular.ttf", "NotoSans-Bold.ttf">>,
      <<"LiberationSans-Regular.ttf", "LiberationSans-Bold.ttf">>,
      <<"Arial.ttf", "Arialbd.ttf">>>>

search_roots == <<"/usr/share/fonts", "/usr/local/share/fonts", "C:/Windows/Fonts">>

Absent == [root |-> 0, at |-> "nowhere"]

\* find_font, one root: the path found under search_roots[r], "" when none
FoundUnder(r, name) ==
    IF r \notin roots.exists THEN <<>>
    ELSE IF files[name] = [root |-> r, at |-> "direct"] THEN <<search_roots[r], "/", name>>
    ELSE IF r \in roots.listed /\ files[name] = [root |-> r, at |-> "nested"]
         THEN <<search_roots[r], "/.../", name>>
    ELSE <<>>

\* find_font(name): the first root that holds the file decides
RECURSIVE FindFrom(_, _)
FindFrom(r, name) ==
    IF r > Len(search_roots) THEN <<>>
    ELSE IF FoundUnder(r, name) # <<>> THEN FoundUnder(r, name)
    ELSE FindFrom(r + 1, name)

find_font(name) == FindFrom(1, name)

\* a probe that keeps the first regular and the first bold file it finds
RECURSIVE EachFileFrom(_, _)
EachFileFrom(i, kind) ==
    IF i > Len(preferred_pairs) THEN <<>>
    ELSE IF find_font(preferred_pairs[i][kind]) # <<>> THEN find_font(preferred_pairs[i][kind])
    ELSE EachFileFrom(i + 1, kind)

ProbeEachFileFrom(i) == [regular |-> EachFileFrom(i, 1), bold |-> EachFileFrom(i, 2)]

\* regular and bold when the loop over preferred_pairs is left: at the break,
\* or after the last pair
RECURSIVE ProbeFrom(_)
ProbeFrom(i) ==
    IF (find_font(preferred_pairs[i][1]) # <<>> /\ find_font(preferred_pairs[i][2]) # <<>>)
       \/ i = Len(preferred_pairs)
    THEN [regular |-> find_font(preferred_pairs[i][1]), bold |-> find_font(preferred_pairs[i][2])]
    ELSE ProbeFrom(i + 1)

\* pdfmetrics.registerFont unless the name is registered
Register(reg, name, file) == IF name \in DOMAIN reg THEN reg ELSE reg @@ (name :> file)

\* _register_unicode_fonts(), given what the loop left in regular and bold
register_pair(found) ==
    IF found.regular # <<>> /\ found.bold # <<>>
    THEN /\ registered' = Register(Register(registered, "BioAgeUnicode", found.regular),
                                   "BioAgeUnicodeBold", found.bold)
         /\ fonts' = <<"BioAgeUnicode", "BioAgeUnicodeBold">>
    ELSE /\ registered' = registered
         /\ fonts' = <<"Helvetica", "Helvetica-Bold">>

\* one call of _register_unicode_fonts, made by each build_pdf of the process
register_unicode_fonts ==
    /\ pc \in {"probe", "probed"}
    /\ register_pair(ProbeFrom(1))
    /\ pc' = IF pc = "probe" THEN "probed" ELSE "probed_again"
    /\ UNCHANGED <<files, roots>>
    /\ UNCHANGED <<coreVars, mailVars, jobVars>>

FontNames == {preferred_pairs[i][k] : i \in 1..Len(preferred_pairs), k \in 1..2}

IsBold(name) == \E i \in 1..Len(preferred_pairs) : preferred_pairs[i][2] = name

\* where the font files of a host lie: in the first root, directly or in
\* subdirectories; regular files nested in the first root and bold files
\* directly in the second; in the third root
Layouts ==
    {[name \in FontNames |-> [root |-> 1, at |-> "direct"]],
     [name \in FontNames |-> [root |-> 1, at |-> "nested"]],
     [name \in FontNames |-> IF IsBold(name) THEN [root |-> 2, at |-> "direct"]
                                             ELSE [root |-> 1, at |-> "nested"]],
     [name \in FontNames |-> [root |-> 3, at |-> "direct"]]}

Hosts ==
    {[name \in FontNames |-> IF name \in present THEN layout[name] ELSE Absent] :
        present \in SUBSET FontNames, layout \in Layouts}

InitFonts ==
    /\ CoreIdle
    /\ pc = "probe"
    /\ files \in Hosts
    /\ roots \in {[exists |-> e, listed |-> l] :
                    e \in {{1, 2, 3}, {2, 3}, {1, 2}, {1}}, l \in {{1, 2, 3}, {2, 3}}}
    /\ registered = <<>>
    /\ fonts = <<>>
    /\ NoMail
    /\ NoJobs

NextFonts == register_unicode_fonts

SpecFonts == InitFonts /\ [][NextFonts]_vars

Probed == pc \in {"probed", "probed_again"}

\* the file is at a place of the host that the probe can reach
CanBeFound(name) ==
    /\ files[name].root \in roots.exists
    /\ files[name].at = "nested" => files[name].root \in roots.listed

CompletePairs ==
    {i \in 1..Len(preferred_pairs) :
        CanBeFound(preferred_pairs[i][1]) /\ CanBeFound(preferred_pairs[i][2])}

FirstComplete == CHOOSE i \in CompletePairs : \A j \in CompletePairs : i <= j

\* the file name a registered path ends in
FileName(p) == p[Len(p)]

\* C23: _register_unicode_fonts returns the fonts of the first pair, in the
\* order DejaVu, Noto, Liberation, Arial, of which both the regular and the
\* bold file are found; when no pair is complete (also when one file of a
\* pair exists alone) it returns Helvetica and Helvetica-Bold; the regular
\* and the bold file it registers are never of different pairs.
C23_FirstCompletePairOrHelvetica ==
    Probed =>
        /\ IF CompletePairs # {}
           THEN /\ fonts = <<"BioAgeUnicode", "BioAgeUnicodeBold">>
                /\ DOMAIN registered = {"BioAgeUnicode", "BioAgeUnicodeBold"}
                /\ FileName(registered["BioAgeUnicode"]) = preferred_pairs[FirstComplete][1]
                /\ FileName(registered["BioAgeUnicodeBold"]) = preferred_pairs[FirstComplete][2]
           ELSE /\ fonts = <<"Helvetica", "Helvetica-Bold">>
                /\ registered = <<>>
        /\ registered # <<>> =>
              \E i \in 1..Len(preferred_pairs) :
                  /\ FileName(registered["BioAgeUnicode"]) = preferred_pairs[i][1]
                  /\ FileName(registered["BioAgeUnicodeBold"]) = preferred_pairs[i][2]

\* a host with the DejaVu regular file and the Noto bold file, each pair
\* incomplete, and the Arial pair complete: the Arial pair is registered
C23_ArialAfterHalfPairs ==
    /\ pc = "probed_again"
    /\ CanBeFound("DejaVuSans.ttf") /\ ~CanBeFound("DejaVuSans-Bold.ttf")
    /\ CanBeFound("NotoSans-Bold.ttf") /\ ~CanBeFound("NotoSans-Regular.ttf")
    /\ DOMAIN registered = {"BioAgeUnicode", "BioAgeUnicodeBold"}
    /\ FileName(registered["BioAgeUnicode"]) = "Arial.ttf"
    /\ FileName(registered["BioAgeUnicodeBold"]) = "Arialbd.ttf"

(***************************************************************************)
(* Properties of a step submission.                                        *)
(***************************************************************************)
\* the value, trimmed, is one validate_answer refuses for the question
Refused(q, value) ==
    \/ q.required /\ strip(value) = <<>>
    \/ /\ strip(value) # <<>>
       /\ q.kind = "number"
       /\ PyFloat(replace(strip(value), ",", ".")) = ValueError
    \/ /\ strip(value) # <<>>
       /\ q.kind = "choice"
       /\ strip(value) \notin q.choices

\* the request is a step submission that reached validate_answer
Submitted(req) ==
    /\ req.handler = "assessment_step_post"
    /\ req.authorized
    /\ req.step \in 1..Len(QUESTIONS)

\* C24: a step submission whose value validate_answer refuses (required and
\* empty after trimming, a number that does not parse with comma or dot, a
\* choice outside the declared set) leaves the answers and the status of the
\* assessment as they were and shows the form of the same step again; an
\* empty value for an optional question is stored and the next step follows.
C24_RefusedValueStoresNothing ==
    [][(Submitted(request') /\ assessment.status # "none") =>
          IF Refused(QUESTIONS[request'.step], request'.value)
          THEN /\ assessment' = assessment
               /\ response'.page = "step"
               /\ response'.step = request'.step
               /\ response'.error # "none"
          ELSE /\ ~QUESTIONS[request'.step].required /\ strip(request'.value) = <<>> =>
                    /\ assessment'.answers[QUESTIONS[request'.step].qid] = Str(<<>>)
                    /\ response' = StepForm(request'.step + 1, "none")
               /\ response'.error = "none"]_vars

\* the sleep answer is stored, a word is then submitted for the same
\* question and the form of step 5 is shown again with the answer kept
C24_WordForSleepRefused ==
    /\ request = Request("assessment_step_post", TRUE, 5, <<"x">>)
    /\ response = StepForm(5, "Please enter a number")
    /\ "sleep_hours" \in DOMAIN assessment.answers
    /\ assessment.answers["sleep_hours"] = Str(<<"7", ",", "5">>)

(***************************************************************************)
(* send_email: the SMTP attempts of one call.  An attempt is the with      *)
(* block of lines 54-67: connect, log in, send.  The error an attempt      *)
(* raises is written as the number of the attempt.                         *)
(***************************************************************************)
MaxRetries == 3      \* largest email_send_retries a host is configured with

\* retries = int(settings.email_send_retries), whatever its value
retries_as_configured(setting) == setting

\* line 51: retries = max(int(settings.email_send_retries), 1)
retries_of(setting) == IF setting > 1 THEN setting ELSE 1

Attempt(ok, err, slept) == [ok |-> ok, err |-> err, slept |-> slept]

\* the calls of one attempt that can raise: the connection (with STARTTLS),
\* server.login when a user name and a password are set, server.send_message
Calls(settings) == {"connect", "send_message"} \cup (IF settings.login THEN {"login"} ELSE {})

\* lines 34-53: nothing is sent without smtp_host and email_from; the loop
\* runs over range(1, retries + 1)
send_email ==
    /\ pc = "send_email"
    /\ pc' = IF ~smtp.smtp_host \/ ~smtp.email_from THEN "returned"
             ELSE IF 1 <= retries_of(smtp.email_send_retries) THEN "attempt"
             ELSE "after_loop"
    /\ UNCHANGED <<smtp, attempts, last_err>>
    /\ UNCHANGED <<coreVars, fontVars, jobVars>>

\* line 72: time.sleep(min(2 * attempt, 5)) when attempt < retries
sleep_after(attempt, retries) ==
    IF attempt < retries THEN (IF 2 * attempt < 5 THEN 2 * attempt ELSE 5) ELSE 0

\* lines 53-72: one pass of the loop; the message is sent and send_email
\* returns, or a call raises, the error is kept and the loop goes on
smtp_attempt ==
    /\ pc = "attempt"
    /\ \/ /\ attempts' = Append(attempts, Attempt(TRUE, NoError, 0))
          /\ pc' = "returned"
          /\ UNCHANGED last_err
       \/ \E at \in Calls(smtp) :
             /\ attempts' =
                   Append(attempts,
                          Attempt(FALSE, Error(Len(attempts) + 1, at),
                                  sleep_after(Len(attempts) + 1,
                                              retries_of(smtp.email_send_retries))))
             /\ last_err' = Error(Len(attempts) + 1, at)
             /\ pc' = IF Len(attempts) + 1 < retries_of(smtp.email_send_retries)
                      THEN "attempt" ELSE "after_loop"
    /\ UNCHANGED smtp
    /\ UNCHANGED <<coreVars, fontVars, jobVars>>

\* lines 73-74: if last_err: raise last_err
raise_last_err ==
    /\ pc = "after_loop"
    /\ pc' = IF last_err # NoError THEN "raised" ELSE "returned"
    /\ UNCHANGED <<smtp, attempts, last_err>>
    /\ UNCHANGED <<coreVars, fontVars, jobVars>>

InitMail ==
    /\ CoreIdle
    /\ NoFonts
    /\ NoJobs
    /\ pc = "send_email"
    /\ smtp \in [smtp_host : BOOLEAN, email_from : BOOLEAN, login : BOOLEAN,
                  email_send_retries : -1..MaxRetries]
    /\ attempts = <<>>
    /\ last_err = NoError

NextMail == send_email \/ smtp_attempt \/ raise_last_err

SpecMail == InitMail /\ [][NextMail]_vars

Configured == smtp.smtp_host /\ smtp.email_from

MostAttempts == IF smtp.email_send_retries >= 1 THEN smtp.email_send_retries ELSE 1

AllFailed == \A i \in 1..Len(attempts) : ~attempts[i].ok

Finished == pc \in {"returned", "raised"}

MaxRequests == 2     \* concurrent start_report_generation requests of the user

MaxEarlier == 4      \* reports of the month the user has before the requests

\* a row of the reports table; a new row has content_json "None" and
\* file_path 0 (None), a sent one the content and the path of its file
Row(status, content_json, file_path, committed) ==
    [assessment_id |-> 1, status |-> status, content_json |-> content_json,
     file_path |-> file_path, committed |-> committed]

\* what another session reads
Committed(rows) == SelectSeq(rows, LAMBDA row : row.committed)

\* main.py 999-1008: the assessment, the plan limit, the language; the
\* session of the request sees the committed rows
start_check(r) ==
    /\ requests[r].pc = "start"
    /\ \E current_lang \in RequestLangs :
          requests' =
             [requests EXCEPT ![r] =
                [pc |-> IF assessment.status # "completed" THEN "bad_request"
                        ELSE IF ~can_generate_report(user.plan, Committed(reports))
                        THEN "pricing"
                        ELSE "allowed",
                 language |-> current_lang,
                 report |-> 0]]
    /\ UNCHANGED <<reports, user, queue, worker, disk>>

\* main.py 1010-1012: the row is added and flushed, not yet committed
start_flush(r) ==
    /\ requests[r].pc = "allowed"
    /\ reports' = Append(reports, Row("queued", "None", 0, FALSE))
    /\ requests' = [requests EXCEPT ![r].pc = "flushed", ![r].report = Len(reports) + 1]
    /\ UNCHANGED <<user, queue, worker, disk>>

\* main.py 1014-1016: the job is put on the queue
start_enqueue(r) ==
    /\ requests[r].pc = "flushed"
    /\ queue' = Append(queue, requests[r].report)
    /\ requests' = [requests EXCEPT ![r].pc = "enqueued"]
    /\ UNCHANGED <<reports, user, worker, disk>>

\* main.py 1018-1019: the row and the user's language are committed
start_commit(r) ==
    /\ requests[r].pc = "enqueued"
    /\ reports' = [reports EXCEPT ![requests[r].report].committed = TRUE]
    /\ user' = [user EXCEPT !.language = requests[r].language]
    /\ requests' = [requests EXCEPT ![r].pc = "dashboard"]
    /\ UNCHANGED <<queue, worker, disk>>

\* the worker takes the next job of the queue
worker_take ==
    /\ worker.pc = "idle"
    /\ queue # <<>>
    /\ worker' = [worker EXCEPT !.pc = "get", !.job = Head(queue)]
    /\ queue' = Tail(queue)
    /\ UNCHANGED <<reports, user, requests, disk>>

\* the job ends: it returned, or raised in the call named
Ended(at) ==
    [worker EXCEPT !.pc = "idle", !.job = 0,
                   !.failed = IF at = "none" THEN @
                              ELSE @ \cup {[job |-> worker.job, at |-> at]}]

\* tasks.py 25-38: the job returns when the session finds no row, else the
\* row is marked generating and committed
job_get ==
    /\ worker.pc = "get"
    /\ IF ~reports[worker.job].committed
       THEN /\ worker' = Ended("none")
            /\ UNCHANGED reports
       ELSE /\ reports' = [reports EXCEPT ![worker.job].status = "generating"]
            /\ worker' = [worker EXCEPT !.pc = "generate"]
    /\ UNCHANGED <<user, queue, requests, disk>>

\* tasks.py 40: generate_report_json returns or raises
job_generate ==
    /\ worker.pc = "generate"
    /\ \E ok \in BOOLEAN :
          worker' = IF ok THEN [worker EXCEPT !.pc = "build_pdf"]
                    ELSE Ended("generate_report_json")
    /\ UNCHANGED <<reports, user, queue, requests, disk>>

\* tasks.py 41: build_pdf returns or raises
job_build_pdf ==
    /\ worker.pc = "build_pdf"
    /\ \E ok \in BOOLEAN :
          worker' = IF ok THEN [worker EXCEPT !.pc = "write"]
                    ELSE Ended("build_pdf")
    /\ UNCHANGED <<reports, user, queue, requests, disk>>

\* tasks.py 43-46: the PDF is written under REPORT_DIR, or open raises
job_write ==
    /\ worker.pc = "write"
    /\ \E ok \in BOOLEAN :
          IF ok
          THEN /\ disk' = disk \cup {worker.job}
               /\ worker' = [worker EXCEPT !.pc = "commit"]
          ELSE /\ UNCHANGED disk
               /\ worker' = Ended("open")
    /\ UNCHANGED <<reports, user, queue, requests>>

\* report.status = "sent" alone
sent_without_content(row, job) == [row EXCEPT !.status = "sent"]

\* tasks.py 48-50: content, path and status of the row
sent_row(row, job) ==
    [row EXCEPT !.content_json = "content", !.file_path = job, !.status = "sent"]

\* tasks.py 48-51: the row is committed as sent
job_commit_sent ==
    /\ worker.pc = "commit"
    /\ reports' = [reports EXCEPT ![worker.job] = sent_row(@, worker.job)]
    /\ worker' = [worker EXCEPT !.pc = "send_email"]
    /\ UNCHANGED <<user, queue, requests, disk>>

\* tasks.py 53-63: send_email returns or raises
job_send_email ==
    /\ worker.pc = "send_email"
    /\ \E ok \in BOOLEAN :
          worker' = IF ok THEN Ended("none") ELSE Ended("send_email")
    /\ UNCHANGED <<reports, user, queue, requests, disk>>

start_step(r) == start_check(r) \/ start_flush(r) \/ start_enqueue(r) \/ start_commit(r)

generate_and_send_report ==
    \/ job_get
    \/ job_generate
    \/ job_build_pdf
    \/ job_write
    \/ job_commit_sent
    \/ job_send_email

JobFrame ==
    UNCHANGED <<answers, lang, pc, scores, genVars, assessment, request, response,
                pdfVars, fontVars, mailVars>>

\* the reports of the month a plan lets the user have before the requests
EarlierCounts(plan) ==
    IF PLAN_FEATURES[plan] = <<>> THEN 0..MaxEarlier
    ELSE {k \in 0..MaxEarlier : k <= PLAN_FEATURES[plan][1]}

InitJob ==
    /\ answers = EmptyDict
    /\ lang = "en"
    /\ pc = "idle"
    /\ scores = <<>>
    /\ api_key = FALSE
    /\ clock = 0
    /\ ctx = NoCtx
    /\ calls = <<>>
    /\ raised = {}
    /\ text = NoText
    /\ data = EmptyDict
    /\ ret = Null
    /\ path = "none"
    /\ assessment = [status |-> "completed", answers |-> ScenarioAnswers]
    /\ user \in {[plan |-> plan, language |-> "en"] : plan \in Plans}
    /\ \E k \in EarlierCounts(user.plan) :
          /\ reports = [i \in 1..k |-> Row("sent", "content", i, TRUE)]
          /\ disk = 1..k
    /\ queue = <<>>
    /\ request = NoRequest
    /\ response = Page("none")
    /\ story = <<>>
    /\ NoFonts
    /\ NoMail
    /\ requests = [r \in 1..MaxRequests |-> [pc |-> "start", language |-> "en", report |-> 0]]
    /\ worker = [pc |-> "idle", job |-> 0, failed |-> {}]

NextJob ==
    \/ (\E r \in 1..MaxRequests : start_check(r)) /\ JobFrame
    \/ (\E r \in 1..MaxRequests : start_flush(r)) /\ JobFrame
    \/ (\E r \in 1..MaxRequests : start_enqueue(r)) /\ JobFrame
    \/ (\E r \in 1..MaxRequests : start_commit(r)) /\ JobFrame
    \/ worker_take /\ JobFrame
    \/ job_get /\ JobFrame
    \/ job_generate /\ JobFrame
    \/ job_build_pdf /\ JobFrame
    \/ job_write /\ JobFrame
    \/ job_commit_sent /\ JobFrame
    \/ job_send_email /\ JobFrame

\* every handler runs to its end and the worker runs every job of the queue
JobFairness ==
    /\ \A r \in 1..MaxRequests : WF_vars(start_step(r) /\ JobFrame)
    /\ WF_vars((worker_take \/ generate_and_send_report) /\ JobFrame)

SpecJob == InitJob /\ [][NextJob]_vars /\ JobFairness

RowIds == 1..(MaxEarlier + MaxRequests)

Created(id) == id <= Len(reports) /\ reports[id].committed

FailedAt(id, ats) == \E f \in worker.failed : f.job = id /\ f.at \in ats

\* C26: when generation, rendering and the file write succeed and the
\* worker runs every job, each report row start_report_generation created
\* eventually has status "sent", whatever the order of the request's enqueue
\* and commit and the worker's steps.
C26_CreatedReportIsSent ==
    \A id \in RowIds :
        Created(id) ~> (\/ Created(id) /\ reports[id].status = "sent"
                        \/ FailedAt(id, {"generate_report_json", "build_pdf", "open"}))

\* the job of a report ran between the enqueue and the commit of its
\* request: the row is committed as queued, nothing failed, no job is left
C26_QueuedWithNoJobLeft ==
    /\ \A r \in 1..MaxRequests : requests[r].pc = "dashboard"
    /\ queue = <<>>
    /\ worker = [pc |-> "idle", job |-> 0, failed |-> {}]
    /\ \E id \in RowIds : Created(id) /\ reports[id].status = "queued"

\* C27: for a plan with a monthly limit the reports of the user with status
\* queued, generating or sent never exceed the limit, whatever the order in
\* which concurrent requests run; a premium user is never refused.
C27_MonthlyLimitKept ==
    /\ PLAN_FEATURES[user.plan] # <<>> =>
          UsedReports(Committed(reports)) <= PLAN_FEATURES[user.plan][1]
    /\ user.plan = "premium" => \A r \in 1..MaxRequests : requests[r].pc # "pricing"

\* two requests of a free user both passed the check before either
\* committed: two reports of the month count against a limit of one
C27_TwoReportsOnFreePlan ==
    /\ user.plan = "free"
    /\ \A r \in 1..MaxRequests : requests[r].pc = "dashboard"
    /\ UsedReports(Committed(reports)) = 2

Unset(row) == row.content_json = "None" /\ row.file_path = 0

\* C28: a report with status "sent" has content_json and file_path set and
\* its PDF file written; the status of a report only moves from queued to
\* generating and from generating to sent; a job that failed in generation
\* or rendering leaves its report in "generating" with content_json and
\* file_path unset.
C28_SentHasContentAndFile ==
    /\ [](\A id \in RowIds : id <= Len(reports) /\ reports[id].status = "sent" =>
              /\ reports[id].content_json # "None"
              /\ reports[id].file_path # 0
              /\ id \in disk)
    /\ [](\A id \in RowIds : FailedAt(id, {"generate_report_json", "build_pdf"}) =>
              reports[id].status = "generating" /\ Unset(reports[id]))
    /\ [][\A id \in RowIds : id <= Len(reports) /\ reports'[id].status # reports[id].status =>
              <<reports[id].status, reports'[id].status>> \in
                  {<<"queued", "generating">>, <<"generating", "sent">>}]_vars

\* one report was sent and mailed, the job of the next failed in build_pdf
C28_SentThenFailedRendering ==
    /\ Len(reports) = 2
    /\ reports[1] = Row("sent", "content", 1, TRUE)
    /\ 1 \in disk
    /\ reports[2] = Row("generating", "None", 0, TRUE)
    /\ \A r \in 1..MaxRequests : requests[r].pc = "dashboard"
    /\ worker.failed = {[job |-> 2, at |-> "build_pdf"]}

(***************************************************************************)
(* Properties of the backfill.                                             *)
(***************************************************************************)
\* data is the backfilled reply: before the translation pass, and in the
\* document accepted for a language that has none
Backfilled == pc = "translate" \/ (Accepted /\ lang \notin {"uk", "ru"})

\* C29: the backfill replaces no top-level field the provider supplied:
\* every key of the reply keeps the provider's value, except summary when
\* it is no object (the default summary) and plan_90_days when it is no
\* list (the empty list).
C29_ProvidedFieldsKept ==
    Backfilled =>
        \A k \in DOMAIN text.json.o :
            /\ k \in DOMAIN data
            /\ data[k] = IF k = "summary" /\ text.json.o[k].t # "obj" THEN DefaultSummary
                         ELSE IF k = "plan_90_days" /\ text.json.o[k].t # "list"
                         THEN List(<<>>)
                         ELSE text.json.o[k]

\* the reply came with a title and a language of its own and a text as
\* summary: title and language are kept, the summary is replaced
C29_ProviderTitleKept ==
    /\ Backfilled
    /\ lang = "en"
    /\ {"title", "summary", "language"} \subseteq DOMAIN text.json.o
    /\ text.json.o["title"] = Str(ProviderText(FALSE))
    /\ text.json.o["summary"].t = "str"
    /\ text.json.o["language"] # Str(<<lang>>)
    /\ data["title"] = Str(ProviderText(FALSE))
    /\ data["language"] = text.json.o["language"]
    /\ data["summary"] = DefaultSummary

(***************************************************************************)
(* The section scores across languages.                                    *)
(***************************************************************************)
\* C30: the five scores depend on the AnswerSet alone: for every language
\* code _compute_section_scores gives the scores it gave for the language
\* of the invocation, position by position, and a row holds nothing but the
\* section label, the score and the note.
C30_ScoresSameInEveryLanguage ==
    Scored =>
        \A lg \in Langs :
            LET rows == _compute_section_scores(answers, lg)
            IN  /\ Len(rows) = Len(scores)
                /\ \A i \in 1..Len(scores) :
                      /\ rows[i].score = scores[i].score
                      /\ DOMAIN rows[i] = {"section", "score", "note"}

\* an occasional smoker scored for a Ukrainian report: 62 for Risk as in
\* English, with other labels and notes
C30_OccasionalSmokerInUkrainian ==
    /\ Scored
    /\ lang = "uk"
    /\ LowerAnswer(answers, "smoking") = <<"s", "o", "m", "e", "t", "i", "m", "e", "s">>
    /\ scores[5].score = 62
    /\ _compute_section_scores(answers, "en")[5].score = 62
    /\ \A i \in 1..5 :
          /\ scores[i].section # _compute_section_scores(answers, "en")[i].section
          /\ scores[i].note # _compute_section_scores(answers, "en")[i].note

====
